---- MODULE Spec2Model ----
(***************************************************************************)
(* Verification model of the ask-DB backend: the SQL safety validator and   *)
(* the paginated execution engine (backend/internal/executor,               *)
(* backend/internal/db), the export handler of the API layer, and the       *)
(* generation orchestrator of the API layer (REST and WebSocket) with the   *)
(* template service, the conversation memory and the progress store; the   *)
(* schema context builder, the column-comment cache under its lock with     *)
(* concurrent callers, and the user-scoped handlers.                        *)
(*                                                                          *)
(* SQL texts and column names are sequences of one-character strings, so    *)
(* that the validator's scans and regular expressions, the column           *)
(* decoration and the masking-key parsing are computed as the code does.    *)
(***************************************************************************)
EXTENDS Integers, Sequences, FiniteSets, TLC

VARIABLES
    sql,        \* validator harness: the SQL text under validation
    verdict,    \* validator harness: "pending", or what ValidateSQL returned
    exec,       \* the SQLExecutor built by New: page sizes, sensitiveCols
    dbTotal,    \* number of rows the inner query yields, in a fixed order
    cache,      \* OracleClient.columnCommentCache: key -> comment
    req,        \* the request being handled (execute or export)
    engine,     \* where the engine failed for it, "ok" if nowhere or not asked
    resp,       \* the SQLExecuteResponse returned by ExecuteSQL
    hardErr,    \* the error ExecuteSQL returned next to resp
    dbCalls,    \* statements issued to the database for the request
    doc,        \* HTTP status and document written by ExportSQLResult
    op,         \* "idle", or the operation that produced the current state
    tpl,        \* templates.Store: the template records, a set keyed by ID
    match,      \* Service.Match harness: the last two calls of Match
    memory,     \* memory.Store: session -> entries, oldest first
    progress,   \* progress.Store.items: request id -> entry
    gen,        \* the generation request handled last and what it produced
    pending,    \* callers of updateProgress between their Get and their Init
    schema,     \* the last schema context build: its input and what it returned
    lookups,    \* lookupColumnComments calls in progress: caller -> its frame
    mu,         \* OracleClient.mu: the readers and the writer holding it
    scope       \* user-scoped stores and the last request served from them

execVars == <<sql, verdict, exec, dbTotal, cache, req, engine, resp, hardErr,
              dbCalls, doc, op>>
lockVars == <<lookups, mu>>
auxVars == <<pending, schema, lockVars, scope>>
genVars == <<tpl, match, memory, progress, gen, auxVars>>
vars == <<sql, verdict, exec, dbTotal, cache, req, engine, resp, hardErr,
          dbCalls, doc, op, tpl, match, memory, progress, gen, pending, schema,
          lookups, mu, scope>>

----------------------------------------------------------------------------
(* Bounds of the model *)

MaxFrags == 3         \* fragments appended to a generated SQL text
MaxRows == 3          \* rows in the full result of the inner query

----------------------------------------------------------------------------
(* Strings as sequences of characters *)

LowerLetters == <<"a","b","c","d","e","f","g","h","i","j","k","l","m",
                  "n","o","p","q","r","s","t","u","v","w","x","y","z">>
UpperLetters == <<"A","B","C","D","E","F","G","H","I","J","K","L","M",
                  "N","O","P","Q","R","S","T","U","V","W","X","Y","Z">>
Digits == {"0","1","2","3","4","5","6","7","8","9"}

LetterIndex(c, letters) == CHOOSE i \in 1..26 : letters[i] = c

IsLower(c) == \E i \in 1..26 : LowerLetters[i] = c
IsUpper(c) == \E i \in 1..26 : UpperLetters[i] = c

\* strings.ToUpper / strings.ToLower on one character
UpperChar(c) == IF IsLower(c) THEN UpperLetters[LetterIndex(c, LowerLetters)] ELSE c
LowerChar(c) == IF IsUpper(c) THEN LowerLetters[LetterIndex(c, UpperLetters)] ELSE c

ToUpper(s) == [i \in 1..Len(s) |-> UpperChar(s[i])]
ToLower(s) == [i \in 1..Len(s) |-> LowerChar(s[i])]

\* unicode.IsSpace restricted to the characters TLA+ strings can write;
\* the regexp class \s is [\t\n\f\r ] as well
IsSpace(c) == c \in {" ", "\t", "\n", "\r", "\f"}

\* [0-9A-Za-z_], the word characters of the regexp assertion \b
IsWordChar(c) == IsLower(c) \/ IsUpper(c) \/ c \in Digits \/ c = "_"

TrimSpace(s) ==
    LET keep == {i \in 1..Len(s) : ~IsSpace(s[i])}
    IN  IF keep = {} THEN <<>>
        ELSE LET lo == CHOOSE i \in keep : \A j \in keep : i <= j
                 hi == CHOOSE i \in keep : \A j \in keep : j <= i
             IN  SubSeq(s, lo, hi)

\* s[i .. i+Len(w)-1] = w
MatchAt(s, i, w) ==
    /\ i >= 1
    /\ i + Len(w) - 1 <= Len(s)
    /\ \A k \in 1..Len(w) : s[i + k - 1] = w[k]

HasPrefix(s, w) == MatchAt(s, 1, w)
HasSuffix(s, w) == MatchAt(s, Len(s) - Len(w) + 1, w)
Contains(s, w) == \E i \in 1..(Len(s) + 1) : MatchAt(s, i, w)

\* no newline in s[a..b]: what the regexp "." may run over
NoNewline(s, a, b) == \A k \in a..b : s[k] # "\n"
AllSpace(s, a, b) == \A k \in a..b : IsSpace(s[k])

RECURSIVE Concat(_)
Concat(fs) == IF fs = <<>> THEN <<>> ELSE Head(fs) \o Concat(Tail(fs))

----------------------------------------------------------------------------
(* Keywords and literals of the validator *)

kwSELECT == <<"S","E","L","E","C","T">>
kwWITHsp == <<"W","I","T","H"," ">>
kwUNION == <<"U","N","I","O","N">>
kwOR == <<"O","R">>
kwAND == <<"A","N","D">>
kwRNUM == <<"R","N","U","M">>

\* executor.go: the denylist of hasDangerousKeywords
dangerous == <<
    <<"I","N","S","E","R","T">>, <<"U","P","D","A","T","E">>,
    <<"D","E","L","E","T","E">>, <<"D","R","O","P">>,
    <<"C","R","E","A","T","E">>, <<"A","L","T","E","R">>,
    <<"T","R","U","N","C","A","T","E">>, <<"G","R","A","N","T">>,
    <<"R","E","V","O","K","E">>, <<"E","X","E","C">>,
    <<"E","X","E","C","U","T","E">>, <<"P","R","A","G","M","A">>,
    <<"V","A","C","U","U","M">>, <<"A","N","A","L","Y","Z","E">>,
    <<"A","T","T","A","C","H">>, <<"D","E","T","A","C","H">> >>

\* the character class [\s\(;] of the denylist pattern
IsKeywordDelim(c) == IsSpace(c) \/ c = "(" \/ c = ";"

\* regexp (?:^|[\s\(;])(KEYWORD)(?:[\s\(;]|$) has a match in s
KeywordPatternMatches(s, keyword) ==
    \E i \in 1..Len(s) :
        /\ MatchAt(s, i, keyword)
        /\ (i = 1 \/ IsKeywordDelim(s[i - 1]))
        /\ (i + Len(keyword) - 1 = Len(s) \/ IsKeywordDelim(s[i + Len(keyword)]))

hasDangerousKeywords(text) ==
    LET upperSQL == ToUpper(text)
    IN  \E n \in 1..Len(dangerous) : KeywordPatternMatches(upperSQL, dangerous[n])

isSelectQueryAnyWith(text) ==
    LET normalized == ToUpper(TrimSpace(text))
    IN  HasPrefix(normalized, kwWITHsp)
        \/ HasPrefix(normalized, kwSELECT) \/ HasPrefix(normalized, <<"(">>)

isSelectQuery(text) ==
    LET normalized == ToUpper(TrimSpace(text))
    IN  IF HasPrefix(normalized, kwWITHsp)
        THEN Contains(normalized, kwSELECT)
        ELSE HasPrefix(normalized, kwSELECT) \/ HasPrefix(normalized, <<"(">>)

\* hasMultipleRoots: SELECT keywords met at parenthesis depth 0, byte by byte
RECURSIVE CountRootSelects(_, _, _)
CountRootSelects(s, i, parenDepth) ==
    IF i > Len(s) THEN 0
    ELSE IF s[i] = "(" THEN CountRootSelects(s, i + 1, parenDepth + 1)
    ELSE IF s[i] = ")" THEN CountRootSelects(s, i + 1, parenDepth - 1)
    ELSE (IF parenDepth = 0 /\ MatchAt(s, i, kwSELECT) THEN 1 ELSE 0)
         + CountRootSelects(s, i + 1, parenDepth)

hasMultipleRoots(text) == CountRootSelects(ToUpper(text), 1, 0) > 1

----------------------------------------------------------------------------
(* hasSQLInjectionPatterns: the nine regular expressions, each decided by   *)
(* the existence of a match in s (regexp.MatchString); "." does not match   *)
(* a newline.                                                               *)

\* \bWORD\b at position i
WordAt(s, i, w) ==
    /\ MatchAt(s, i, w)
    /\ (i = 1 \/ ~IsWordChar(s[i - 1]))
    /\ (i + Len(w) - 1 = Len(s) \/ ~IsWordChar(s[i + Len(w)]))

\* s[a..b] matches '?\s*
OptQuoteThenSpace(s, a, b) ==
    \/ AllSpace(s, a, b)
    \/ (a <= b /\ s[a] = "'" /\ AllSpace(s, a + 1, b))

\* s[a..b] matches .*'?\s*
AnyThenOptQuoteThenSpace(s, a, b) ==
    \E m \in (a - 1)..b : NoNewline(s, a, m) /\ OptQuoteThenSpace(s, m + 1, b)

\* '.*--
MatchQuoteComment(s) ==
    \E i \in 1..Len(s) : \E j \in (i + 1)..Len(s) :
        s[i] = "'" /\ MatchAt(s, j, <<"-","-">>) /\ NoNewline(s, i + 1, j - 1)

\* '.*;
MatchQuoteTerminator(s) ==
    \E i \in 1..Len(s) : \E j \in (i + 1)..Len(s) :
        s[i] = "'" /\ s[j] = ";" /\ NoNewline(s, i + 1, j - 1)

\* (\bOR\b|\bAND\b).*'?\s*=\s*'
MatchBoolCondition(s) ==
    \E i \in 1..Len(s) : \E w \in {kwOR, kwAND} :
        /\ WordAt(s, i, w)
        /\ \E p \in (i + Len(w))..Len(s) : \E q \in (p + 1)..Len(s) :
              /\ s[p] = "="
              /\ s[q] = "'"
              /\ AllSpace(s, p + 1, q - 1)
              /\ AnyThenOptQuoteThenSpace(s, i + Len(w), p - 1)

\* UNION.*SELECT
MatchUnionSelect(s) ==
    \E i \in 1..Len(s) : \E j \in (i + 5)..Len(s) :
        MatchAt(s, i, kwUNION) /\ MatchAt(s, j, kwSELECT) /\ NoNewline(s, i + 5, j - 1)

\* '.*OR.*'='
MatchClassic(s) ==
    \E i \in 1..Len(s) : \E j \in (i + 1)..Len(s) : \E k \in (j + 2)..Len(s) :
        /\ s[i] = "'"
        /\ MatchAt(s, j, kwOR)
        /\ MatchAt(s, k, <<"'","=","'">>)
        /\ NoNewline(s, i + 1, j - 1)
        /\ NoNewline(s, j + 2, k - 1)

\* "\s*OR\s*"
MatchDoubleQuoteOr(s) ==
    \E i \in 1..Len(s) : \E j \in (i + 1)..Len(s) : \E k \in (j + 2)..Len(s) :
        /\ s[i] = "\""
        /\ AllSpace(s, i + 1, j - 1)
        /\ MatchAt(s, j, kwOR)
        /\ AllSpace(s, j + 2, k - 1)
        /\ s[k] = "\""

\* /\*.*\*/
MatchBlockComment(s) ==
    \E i \in 1..Len(s) : \E j \in (i + 2)..Len(s) :
        /\ MatchAt(s, i, <<"/","*">>)
        /\ MatchAt(s, j, <<"*","/">>)
        /\ NoNewline(s, i + 2, j - 1)

\* xp_ and sp_ : the patterns are written in lower case
MatchXp(s) == Contains(s, <<"x","p","_">>)
MatchSp(s) == Contains(s, <<"s","p","_">>)

UnionPattern == 4

PatternMatches(n, s) ==
    CASE n = 1 -> MatchQuoteComment(s)
      [] n = 2 -> MatchQuoteTerminator(s)
      [] n = 3 -> MatchBoolCondition(s)
      [] n = 4 -> MatchUnionSelect(s)
      [] n = 5 -> MatchClassic(s)
      [] n = 6 -> MatchDoubleQuoteOr(s)
      [] n = 7 -> MatchBlockComment(s)
      [] n = 8 -> MatchXp(s)
      [] n = 9 -> MatchSp(s)

\* The loop runs over the patterns; on a match it only decides whether to
\* "continue" for a whitelisted UNION, no branch returns true, and the
\* function ends with "return false".
hasSQLInjectionPatterns(text) ==
    LET upperSQL == ToUpper(text)
        matched == {n \in 1..9 : PatternMatches(n, upperSQL)}
        whitelisted == {n \in matched : n = UnionPattern /\ ~hasMultipleRoots(text)}
    IN  \E n \in matched \ whitelisted : FALSE

----------------------------------------------------------------------------
(* hasStackedQueries *)

\* regexp /\*.*?\*/|--.*?$ replaced by "" (ReplaceAllString): leftmost match,
\* first alternative first, lazy; "$" is the end of the text
BlockCommentEnds(s, i) ==
    {j \in (i + 2)..Len(s) : MatchAt(s, j, <<"*","/">>) /\ NoNewline(s, i + 2, j - 1)}

RECURSIVE StripComments(_, _)
StripComments(s, i) ==
    IF i > Len(s) THEN <<>>
    ELSE IF MatchAt(s, i, <<"/","*">>) /\ BlockCommentEnds(s, i) # {}
    THEN LET j == CHOOSE x \in BlockCommentEnds(s, i) :
                      \A y \in BlockCommentEnds(s, i) : x <= y
         IN  StripComments(s, j + 2)
    ELSE IF MatchAt(s, i, <<"-","-">>) /\ NoNewline(s, i + 2, Len(s))
    THEN <<>>
    ELSE <<s[i]>> \o StripComments(s, i + 1)

IsQuote(c) == c = "'" \/ c = "\""

\* the counting loop: semicolons met while inString is false
RECURSIVE CountSemicolons(_, _, _, _)
CountSemicolons(cleaned, i, inString, stringChar) ==
    IF i > Len(cleaned) THEN 0
    ELSE LET char == cleaned[i]
             toggles == IsQuote(char) /\ (i = 1 \/ cleaned[i - 1] # "\\")
             inString2 == IF toggles /\ ~inString THEN TRUE
                          ELSE IF toggles /\ char = stringChar THEN FALSE
                          ELSE inString
             stringChar2 == IF toggles /\ ~inString THEN char ELSE stringChar
         IN  (IF char = ";" /\ ~inString2 THEN 1 ELSE 0)
             + CountSemicolons(cleaned, i + 1, inString2, stringChar2)

hasStackedQueries(text) ==
    LET cleaned == StripComments(text, 1)
    IN  CountSemicolons(cleaned, 1, FALSE, "") > 1

----------------------------------------------------------------------------
(* ValidateSQL: nil, or the reason of the first check that fails *)

NoError == "<nil>"
ErrEmpty == "SQL query cannot be empty"
ErrNotSelect == "only SELECT queries are allowed"
ErrForbidden == "query contains forbidden keywords"
ErrInjection == "potential SQL injection detected"
ErrStacked == "stacked queries are not allowed"

ValidateSQL(text) ==
    IF text = <<>> THEN ErrEmpty
    ELSE LET trimmed == TrimSpace(text)
         IN  IF ~isSelectQuery(trimmed) THEN ErrNotSelect
             ELSE IF hasDangerousKeywords(trimmed) THEN ErrForbidden
             ELSE IF hasSQLInjectionPatterns(trimmed) THEN ErrInjection
             ELSE IF hasStackedQueries(trimmed) THEN ErrStacked
             ELSE NoError

----------------------------------------------------------------------------
(* SQL texts submitted to the validator: a start followed by at most        *)
(* MaxFrags fragments.  Three families exercise the denylist, the read-     *)
(* query check and the stacked-query / injection checks.                    *)

fSELECT == <<"S","E","L","E","C","T">>
fselect == <<"s","e","l","e","c","t">>
fSELECTsp == <<"S","E","L","E","C","T"," ">>
fWITH == <<"W","I","T","H">>
fDROP == <<"D","R","O","P">>
fdelete == <<"d","e","l","e","t","e">>
fUPDATE == <<"U","P","D","A","T","E">>
fxp == <<"x","p","_">>
fQuotedDashes == <<"'","-","-","'">>
fEscapedQuote == <<"\\","'">>

DenyStarts == {fSELECTsp, <<"(">>}
DenyFrags == {<<" ">>, <<"\t">>, <<"(">>, <<")">>, <<";">>, <<",">>, fDROP, fdelete}

ReadStarts == {<<>>}
ReadFrags == {fSELECT, fselect, fWITH, fUPDATE, <<" ">>, <<"\t">>, <<"(">>, <<"x">>}

LexStarts == {fSELECTsp}
LexFrags == {<<"'">>, <<"\"">>, <<";">>, <<"\n">>,
             <<"-","-">>, <<"/","*">>, <<"*","/">>,
             fQuotedDashes, fEscapedQuote, fxp}

FragSeqs(F) == UNION {[1..k -> F] : k \in 0..MaxFrags}

Texts(starts, F) == {st \o Concat(fs) : st \in starts, fs \in FragSeqs(F)}

SQLTexts == Texts(DenyStarts, DenyFrags) \cup Texts(ReadStarts, ReadFrags)
              \cup Texts(LexStarts, LexFrags)

----------------------------------------------------------------------------
(* The database seen through database/sql: the inner query yields dbTotal   *)
(* rows in a fixed order over the columns dbCols; ALL_COL_COMMENTS holds    *)
(* the comments of Catalog.  Cells are strings (sequences of characters),   *)
(* Nil is SQL NULL.                                                         *)

Nil == <<"<null>">>
MaskToken == <<"*","*","*">>

\* strconv.Itoa for n >= 0
DigitChars == <<"0","1","2","3","4","5","6","7","8","9">>
RECURSIVE Itoa(_)
Itoa(n) == IF n < 10 THEN <<DigitChars[n + 1]>>
           ELSE Itoa(n \div 10) \o <<DigitChars[(n % 10) + 1]>>

cID == <<"I","D">>
cSsn == <<"S","s","n">>
cPHONE == <<"P","H","O","N","E">>
cNOTE == <<"N","O","T","E">>
cExpr == <<"F","(","S","S","N",")">>

dbCols == <<cID, cSsn, cPHONE, cNOTE, cExpr>>

\* COLUMN_NAME -> COMMENTS rows of the catalog (SSN has no row)
CatalogKeys == {cID, cPHONE, cNOTE}
CatalogComment(key) ==
    CASE key = cID -> <<"n","o">>
      [] key = cPHONE -> <<" ","t","e","l","(","m",")">>
      [] key = cNOTE -> <<"s","s","n">>

\* the value of column c in row r of the inner query
Cell(r, c) ==
    IF (r + c) % 4 = 0 THEN Nil
    ELSE IF r = 1 /\ c = 4 THEN <<"a","&","b">>
    ELSE <<"r">> \o Itoa(r) \o <<"c">> \o Itoa(c)

RowValues(r) == [c \in 1..Len(dbCols) |-> Cell(r, c)]

Min(a, b) == IF a <= b THEN a ELSE b
Max(a, b) == IF a >= b THEN a ELSE b

\* rows of:  SELECT * FROM (SELECT inner_query.*, ROWNUM rnum FROM (..) inner_query
\*           WHERE ROWNUM <= :1) WHERE rnum > :2
WrappedRows(total, maxRow, offset) ==
    LET last == Min(total, maxRow)
        n == Max(0, last - Max(offset, 0))
    IN  [k \in 1..n |-> RowValues(Max(offset, 0) + k) \o <<Itoa(Max(offset, 0) + k)>>]

WrappedColumns == dbCols \o <<kwRNUM>>

EngineOutcomes == {"ok", "meta_err", "query_err", "columns_err", "scan_err", "rows_err"}

ZeroResponse ==
    [Success |-> FALSE, Columns |-> <<>>, Rows |-> <<>>, RowCount |-> 0,
     Error |-> "", Page |-> 0, PageSize |-> 0, HasMore |-> FALSE,
     MaskedColumns |-> <<>>]

FailureResponse(msg) == [ZeroResponse EXCEPT !.Error = msg]

DBCall(kind, maxRow, offset, timeout) ==
    [kind |-> kind, maxRow |-> maxRow, offset |-> offset, timeout |-> timeout]

----------------------------------------------------------------------------
(* Column decoration with the process-wide comment cache *)

RECURSIVE UniqueKeys(_, _)
UniqueKeys(columns, seen) ==
    IF columns = <<>> THEN <<>>
    ELSE LET key == ToUpper(TrimSpace(Head(columns)))
         IN  IF key = <<>> \/ key \in seen
             THEN UniqueKeys(Tail(columns), seen)
             ELSE <<key>> \o UniqueKeys(Tail(columns), seen \cup {key})

Range(s) == {s[i] : i \in 1..Len(s)}

\* fetchColumnComments / fetchColumnCommentsChunk: one row per column found
\* in the catalog, the comment trimmed
fetchColumnComments(keys) ==
    [k \in (Range(keys) \cap CatalogKeys) |-> TrimSpace(CatalogComment(k))]

\* the store that leaves out the columns the catalog lacks
StoreFetchedFoundOnly(fetched, toFetch, hits, cached) ==
    LET found == {k \in DOMAIN fetched : fetched[k] # <<>>}
    IN  [result |-> [k \in hits \cup found |->
                        IF k \in found THEN fetched[k] ELSE cached[k]],
         failed |-> FALSE,
         cache |-> [k \in DOMAIN cached \cup DOMAIN fetched |->
                      IF k \in DOMAIN fetched THEN fetched[k] ELSE cached[k]],
         queried |-> TRUE]

\* lookupColumnComments, after the catalog query: the fetched comments are
\* stored in the cache (an empty comment for a column the catalog lacks)
StoreFetched(fetched, toFetch, hits, cached) ==
    LET found == {k \in DOMAIN fetched : fetched[k] # <<>>}
    IN  [result |-> [k \in hits \cup found |->
                        IF k \in found THEN fetched[k] ELSE cached[k]],
         failed |-> FALSE,
         cache |-> [k \in DOMAIN cached \cup Range(toFetch) |->
                      IF k \in DOMAIN fetched THEN fetched[k]
                      ELSE IF k \in Range(toFetch) THEN <<>>
                      ELSE cached[k]],
         queried |-> TRUE]

\* lookupColumnComments, after the cache has been read: hits holds the keys
\* with a cached comment, toFetch the keys the cache does not know
LookupMisses(unique, toFetch, hits, cached, metaOk) ==
    IF unique = <<>> \/ toFetch = <<>>
    THEN [result |-> [k \in hits |-> cached[k]], failed |-> FALSE,
          cache |-> cached, queried |-> FALSE]
    ELSE IF ~metaOk
    THEN [result |-> [k \in hits |-> cached[k]], failed |-> TRUE,
          cache |-> cached, queried |-> TRUE]
    ELSE StoreFetched(fetchColumnComments(toFetch), toFetch, hits, cached)

LookupUnique(unique, cached, metaOk) ==
    LET IsMiss(k) == k \notin DOMAIN cached
    IN  LookupMisses(unique, SelectSeq(unique, IsMiss),
                     {k \in Range(unique) : k \in DOMAIN cached /\ cached[k] # <<>>},
                     cached, metaOk)

\* lookupColumnComments: [result, failed, cache, queried]
lookupColumnComments(columns, cached, metaOk) ==
    LookupUnique(UniqueKeys(columns, {}), cached, metaOk)

\* decorateColumns, after the lookup: comment(NAME) where a comment is known
DecorateWith(look, columns) ==
    LET decorate(col) ==
            IF /\ ToUpper(TrimSpace(col)) \in DOMAIN look.result
               /\ look.result[ToUpper(TrimSpace(col))] # <<>>
            THEN look.result[ToUpper(TrimSpace(col))] \o <<"(">> \o col \o <<")">>
            ELSE col
    IN  IF look.failed
        THEN [columns |-> columns, cache |-> look.cache, queried |-> look.queried]
        ELSE [columns |-> [i \in 1..Len(columns) |-> decorate(columns[i])],
              cache |-> look.cache, queried |-> look.queried]

\* decorateColumns: [columns, cache, queried]
decorateColumns(columns, cached, metaOk) ==
    IF columns = <<>> THEN [columns |-> columns, cache |-> cached, queried |-> FALSE]
    ELSE DecorateWith(lookupColumnComments(columns, cached, metaOk), columns)

----------------------------------------------------------------------------
(* OracleClient.ExecuteQuery / ExecuteQueryRange.  The outcome says where   *)
(* the engine fails, if it does; the result is                              *)
(* [resp, err, cache, calls]: the response, the error returned next to it,  *)
(* the comment cache afterwards and the statements issued.                  *)

ErrEngineQuery == "ORA-00942: table or view does not exist"
ErrEngineColumns == "sql: Rows are closed"
ErrEngineScan == "sql: Scan error on column index 0"
ErrEngineRows == "driver: bad connection"

TrimSuffix(s, w) == IF Len(w) <= Len(s) /\ HasSuffix(s, w)
                    THEN SubSeq(s, 1, Len(s) - Len(w)) ELSE s

RemoveAt(s, idx) == SubSeq(s, 1, idx - 1) \o SubSeq(s, idx + 1, Len(s))

\* strings.EqualFold on the letters of the model
EqualFold(a, b) == ToUpper(a) = ToUpper(b)

\* index of the first column named RNUM, 0 when there is none
RowNumIndex(columns) ==
    LET hits == {i \in 1..Len(columns) : EqualFold(columns[i], kwRNUM)}
    IN  IF hits = {} THEN 0 ELSE CHOOSE i \in hits : \A j \in hits : i <= j

\* rows.Next() / rows.Scan(): the rows the loop appends before it ends
Delivered(fetched, outcome) ==
    IF outcome = "rows_err" THEN SubSeq(fetched, 1, Min(1, Len(fetched))) ELSE fetched

EngineResult(response, err, cached, calls) ==
    [resp |-> response, err |-> err, cache |-> cached, calls |-> calls]

\* the statements issued: the query and, when the catalog was asked, the
\* comment query
IssuedCalls(call, deco, timeout) ==
    IF deco.queried THEN <<call, DBCall("comments", 0, 0, timeout)>> ELSE <<call>>

\* ExecuteQuery after rows.Columns(): the columns are decorated, then scanned
QueryScan(call, fetched, deco, timeout, outcome) ==
    IF outcome = "scan_err" /\ fetched # <<>>
    THEN EngineResult(FailureResponse(ErrEngineScan), NoError, deco.cache,
                      IssuedCalls(call, deco, timeout))
    ELSE EngineResult(
             [ZeroResponse EXCEPT !.Success = TRUE, !.Columns = deco.columns,
                                  !.Rows = Delivered(fetched, outcome),
                                  !.RowCount = Len(Delivered(fetched, outcome))],
             IF outcome = "rows_err" THEN ErrEngineRows ELSE NoError,
             deco.cache, IssuedCalls(call, deco, timeout))

QueryRun(call, timeout, total, cached, outcome) ==
    IF outcome = "query_err"
    THEN EngineResult(FailureResponse(ErrEngineQuery), NoError, cached, <<call>>)
    ELSE IF outcome = "columns_err"
    THEN EngineResult(FailureResponse(ErrEngineColumns), NoError, cached, <<call>>)
    ELSE QueryScan(call, [k \in 1..total |-> RowValues(k)],
                   decorateColumns(dbCols, cached, outcome # "meta_err"),
                   timeout, outcome)

ExecuteQuery(query, timeout, total, cached, outcome) ==
    QueryRun(DBCall("query", 0, 0, timeout), timeout, total, cached, outcome)

\* maxRow := offset + limit + 1: one row more than the page, to learn has_more
RangeMaxRowNoLookahead(offset, limit) == offset + limit
RangeMaxRow(offset, limit) == offset + limit + 1

\* if len(resultRows) > limit { resultRows = resultRows[:limit] }
KeepLookaheadRow(rows, limit) == rows
TruncateToLimit(rows, limit) == IF Len(rows) > limit THEN SubSeq(rows, 1, limit) ELSE rows

\* values = append(values[:rowNumIdx], values[rowNumIdx+1:]...)
StripRowNum(values, rowNumIdx) ==
    IF rowNumIdx >= 1 /\ rowNumIdx <= Len(values) THEN RemoveAt(values, rowNumIdx)
    ELSE values

\* ExecuteQueryRange after the scan loop: has_more, the cut to the page and
\* the decorated columns
RangeResponse(call, resultRows, deco, limit, timeout, outcome) ==
    EngineResult(
        [ZeroResponse EXCEPT !.Success = TRUE, !.Columns = deco.columns,
                             !.Rows = TruncateToLimit(resultRows, limit),
                             !.RowCount = Len(TruncateToLimit(resultRows, limit)),
                             !.HasMore = Len(resultRows) > limit],
        IF outcome = "rows_err" THEN ErrEngineRows ELSE NoError,
        deco.cache, IssuedCalls(call, deco, timeout))

\* ExecuteQueryRange after rows.Columns(): the scan loop drops the RNUM value
RangeScan(call, fetched, rowNumIdx, limit, timeout, cached, outcome) ==
    IF outcome = "scan_err" /\ fetched # <<>>
    THEN EngineResult(FailureResponse(ErrEngineScan), NoError, cached, <<call>>)
    ELSE RangeResponse(call,
             [k \in 1..Len(Delivered(fetched, outcome)) |->
                 StripRowNum(Delivered(fetched, outcome)[k], rowNumIdx)],
             decorateColumns(StripRowNum(WrappedColumns, rowNumIdx), cached,
                             outcome # "meta_err"),
             limit, timeout, outcome)

\* ExecuteQueryRange from the wrapped statement on
RangeRun(offset, limit, timeout, total, cached, outcome) ==
    IF outcome = "query_err"
    THEN EngineResult(FailureResponse(ErrEngineQuery), NoError, cached,
                      <<DBCall("range", RangeMaxRow(offset, limit), offset, timeout)>>)
    ELSE IF outcome = "columns_err"
    THEN EngineResult(FailureResponse(ErrEngineColumns), NoError, cached,
                      <<DBCall("range", RangeMaxRow(offset, limit), offset, timeout)>>)
    ELSE RangeScan(DBCall("range", RangeMaxRow(offset, limit), offset, timeout),
                   WrappedRows(total, RangeMaxRow(offset, limit), offset),
                   RowNumIndex(WrappedColumns), limit, timeout, cached, outcome)

ExecuteQueryRange(query, offset, limit, timeout, total, cached, outcome) ==
    IF limit <= 0 THEN ExecuteQuery(query, timeout, total, cached, outcome)
    ELSE IF TrimSuffix(TrimSpace(query), <<";">>) = <<>>
    THEN EngineResult(FailureResponse("query cannot be empty"), NoError, cached, <<>>)
    ELSE RangeRun(IF offset < 0 THEN 0 ELSE offset, limit, timeout, total, cached,
                  outcome)

----------------------------------------------------------------------------
(* SQLExecutor: construction, masking, ExecuteSQL *)

DefaultTimeoutSeconds == 30
FallbackDefaultPageSize == 50
FallbackMaxPageSize == 200
MaxRequestTimeout == 300

\* New: the executor built from the configuration
New(cfg) ==
    LET d1 == IF cfg.SQLDefaultPageSize > 0 THEN cfg.SQLDefaultPageSize ELSE 0
        m1 == IF cfg.SQLMaxPageSize > 0 THEN cfg.SQLMaxPageSize ELSE 0
        d2 == IF d1 <= 0 THEN FallbackDefaultPageSize ELSE d1
        m2 == IF m1 <= 0 THEN FallbackMaxPageSize ELSE m1
        m3 == IF m2 < d2 THEN d2 ELSE m2
        sens == {ToUpper(TrimSpace(cfg.SensitiveColumns[i])) :
                    i \in {j \in 1..Len(cfg.SensitiveColumns) :
                              TrimSpace(cfg.SensitiveColumns[j]) # <<>>}}
    IN  [timeout |-> DefaultTimeoutSeconds, defaultPageSize |-> d2,
         maxPageSize |-> m3, sensitiveCols |-> sens]

\* strings.LastIndex(col, "("), 0 when there is none
LastIndexOpen(col) ==
    LET hits == {i \in 1..Len(col) : col[i] = "("}
    IN  IF hits = {} THEN 0 ELSE CHOOSE i \in hits : \A j \in hits : j <= i

maskingKeysWholeNameOnly(column) == {ToUpper(TrimSpace(column))}

\* maskingKeys of a trimmed column: the name, and for comment(NAME) the
\* text between the last "(" and the closing ")"
KeysOfTrimmed(col, openIdx) ==
    IF ~HasSuffix(col, <<")">>) THEN {ToUpper(col)}
    ELSE IF openIdx = 0 \/ openIdx >= Len(col) THEN {ToUpper(col)}
    ELSE IF TrimSpace(SubSeq(col, openIdx + 1, Len(col) - 1)) = <<>> THEN {ToUpper(col)}
    ELSE {ToUpper(col), ToUpper(TrimSpace(SubSeq(col, openIdx + 1, Len(col) - 1)))}

maskingKeys(column) == KeysOfTrimmed(TrimSpace(column), LastIndexOpen(TrimSpace(column)))

\* applyMasking with the indexes of the sensitive columns
MaskIndexes(r, indexes) ==
    LET IsMasked(idx) == idx \in indexes
    IN  IF indexes = {} THEN r
        ELSE [r EXCEPT
                !.Rows = [r2 \in 1..Len(r.Rows) |->
                            [idx \in 1..Len(r.Rows[r2]) |->
                               IF idx \in indexes /\ r.Rows[r2][idx] # Nil
                               THEN MaskToken ELSE r.Rows[r2][idx]]],
                !.MaskedColumns =
                    [k \in 1..Cardinality(indexes) |->
                        r.Columns[SelectSeq([i \in 1..Len(r.Columns) |-> i], IsMasked)[k]]]]

applyMasking(e, r) ==
    IF ~r.Success \/ e.sensitiveCols = {} THEN r
    ELSE MaskIndexes(r, {idx \in 1..Len(r.Columns) :
                            maskingKeys(r.Columns[idx]) \cap e.sensitiveCols # {}})

\* offset := (page - 1) * pageSize
PageOffsetFromPage(page, pageSize) == page * pageSize
PageOffset(page, pageSize) == (page - 1) * pageSize

\* ExecuteSQL after the query: page and page size are reported, the
\* sensitive columns masked
PageResult(e, ran, page, pageSize) ==
    EngineResult(applyMasking(e, [ran.resp EXCEPT !.Page = page, !.PageSize = pageSize]),
                 NoError, ran.cache, ran.calls)

\* ExecuteSQL with the effective timeout, page and page size
RunPage(e, query, execTimeout, page, pageSize, total, cached, outcome) ==
    PageResult(e, ExecuteQueryRange(query, PageOffset(page, pageSize), pageSize,
                                    execTimeout, total, cached, outcome),
               page, pageSize)

\* if pageSize > e.maxPageSize { pageSize = e.maxPageSize }
ClampPageSize(e, pageSize) == IF pageSize > e.maxPageSize THEN e.maxPageSize ELSE pageSize

\* ExecuteSQL after the validation: timeout, paging, query, masking
RunValidated(e, request, total, cached, outcome) ==
    RunPage(e, request.SQL,
            IF request.Timeout > 0 /\ request.Timeout < MaxRequestTimeout
            THEN request.Timeout ELSE e.timeout,
            IF request.Page <= 0 THEN 1 ELSE request.Page,
            ClampPageSize(e, IF request.PageSize <= 0 THEN e.defaultPageSize
                             ELSE request.PageSize),
            total, cached, outcome)

\* ExecuteSQL with the query issued before the validation result is looked at
ExecuteSQLValidateLast(e, request, total, cached, outcome) ==
    LET ran == RunValidated(e, request, total, cached, outcome)
    IN  IF ValidateSQL(request.SQL) # NoError
        THEN EngineResult(FailureResponse(ValidateSQL(request.SQL)), NoError,
                          ran.cache, ran.calls)
        ELSE ran

\* ExecuteSQL: [resp, err, cache, calls]
ExecuteSQL(e, request, total, cached, outcome) ==
    IF ValidateSQL(request.SQL) # NoError
    THEN EngineResult(FailureResponse(ValidateSQL(request.SQL)), NoError, cached, <<>>)
    ELSE RunValidated(e, request, total, cached, outcome)

----------------------------------------------------------------------------
(* APIHandler.ExportSQLResult and the document it writes *)

DefaultExportLimit == 1000
MaxExportLimit == 5000

fmtExcel == <<"e","x","c","e","l">>
fmtWord == <<"w","o","r","d">>

\* html.EscapeString
EscapeChar(c) ==
    CASE c = "<" -> <<"&","l","t",";">>
      [] c = ">" -> <<"&","g","t",";">>
      [] c = "&" -> <<"&","a","m","p",";">>
      [] c = "'" -> <<"&","#","3","9",";">>
      [] c = "\"" -> <<"&","#","3","4",";">>
      [] OTHER -> <<c>>

RECURSIVE EscapeString(_)
EscapeString(s) == IF s = <<>> THEN <<>> ELSE EscapeChar(Head(s)) \o EscapeString(Tail(s))

RECURSIVE ReplaceNewlines(_)
ReplaceNewlines(s) ==
    IF s = <<>> THEN <<>>
    ELSE (IF Head(s) = "\n" THEN <<"<","b","r","/",">">> ELSE <<Head(s)>>)
         \o ReplaceNewlines(Tail(s))

escapeCell(value) == IF value = <<>> THEN <<>> ELSE ReplaceNewlines(EscapeString(value))

\* formatCellValue: nil becomes "", a string value is written as it is
formatCellValue(val) == IF val = Nil THEN <<>> ELSE val

stringifySQLRows(rows) ==
    [i \in 1..Len(rows) |-> [j \in 1..Len(rows[i]) |-> formatCellValue(rows[i][j])]]

\* buildTableDocument: the header cells and the body cells of the table
\* (the title, the time stamp and the style sheet carry no result data)
buildTableDocument(rowCount, limitedTo, columns, rows) ==
    [written |-> TRUE,
     rowCount |-> rowCount,
     limitedTo |-> limitedTo,
     header |-> [i \in 1..Len(columns) |-> EscapeString(columns[i])],
     body |-> [i \in 1..Len(rows) |-> [j \in 1..Len(rows[i]) |-> escapeCell(rows[i][j])]]]

NoDocument ==
    [written |-> FALSE, rowCount |-> 0, limitedTo |-> 0, header |-> <<>>, body |-> <<>>]

ExportTimeoutSeconds == 120

\* ExportSQLResult after the query: the document of a successful result
ExportDocument(ran, limit) ==
    IF ran.err # NoError
    THEN [status |-> 500, doc |-> NoDocument, cache |-> ran.cache, calls |-> ran.calls]
    ELSE IF ~ran.resp.Success
    THEN [status |-> 500, doc |-> NoDocument, cache |-> ran.cache, calls |-> ran.calls]
    ELSE [status |-> 200,
          doc |-> buildTableDocument(ran.resp.RowCount,
                                     IF ran.resp.HasMore THEN limit ELSE 0,
                                     ran.resp.Columns, stringifySQLRows(ran.resp.Rows)),
          cache |-> ran.cache, calls |-> ran.calls]

\* if limit > 5000 { limit = 5000 }
ClampExportLimit(limit) == IF limit > MaxExportLimit THEN MaxExportLimit ELSE limit

\* ExportSQLResult with the normalised format and limit
ExportRun(query, format, limit, total, cached, outcome) ==
    IF query = <<>>
    THEN [status |-> 400, doc |-> NoDocument, cache |-> cached, calls |-> <<>>]
    ELSE IF format # fmtExcel /\ format # fmtWord
    THEN [status |-> 400, doc |-> NoDocument, cache |-> cached, calls |-> <<>>]
    ELSE IF ValidateSQL(query) # NoError
    THEN [status |-> 400, doc |-> NoDocument, cache |-> cached, calls |-> <<>>]
    ELSE ExportDocument(ExecuteQueryRange(query, 0, limit, ExportTimeoutSeconds,
                                          total, cached, outcome),
                        limit)

\* ExportSQLResult: [status, doc, cache, calls]
ExportSQLResult(request, total, cached, outcome) ==
    ExportRun(request.SQL,
              IF ToLower(TrimSpace(request.Format)) = <<>> THEN fmtExcel
              ELSE ToLower(TrimSpace(request.Format)),
              ClampExportLimit(IF request.Limit <= 0 THEN DefaultExportLimit
                               ELSE request.Limit),
              total, cached, outcome)

----------------------------------------------------------------------------
(* Inputs of the executor specification *)

tSelect == <<"S","E","L","E","C","T"," ","x",";">>
tStacked == <<"s","e","l","e","c","t"," ","x",";",";">>
tDrop == <<"d","r","o","p"," ","x">>

ExecTexts == {tSelect, tStacked, tDrop}
Pages == {0, 1, 2, 3}
PageSizes == {0, 1, 2, 250}
Timeouts == {10, 120, 300}
ExportFormats == {<<>>, <<" ","W","o","r","d">>, <<"p","d","f">>}
ExportLimits == {0, 2, 6000}

sensNone == <<>>
sensSsn == << <<" ","s","s","n"," ">>, <<" ">> >>
sensPhoneNote == << <<"P","h","o","n","e">>, <<"n","o","t","e">>,
                    <<"I","d","_","C","a","r","d">> >>

Configs == [SQLDefaultPageSize : {0, 2}, SQLMaxPageSize : {0, 2},
            SensitiveColumns : {sensNone, sensSsn, sensPhoneNote}]

NoRequest == [SQL |-> <<>>, Timeout |-> 0, Page |-> 0, PageSize |-> 0,
              Format |-> <<>>, Limit |-> 0]

\* every text with every page and page size, and one accepted request with
\* each timeout
ExecRequests ==
    {[NoRequest EXCEPT !.SQL = t, !.Page = p, !.PageSize = ps] :
        t \in ExecTexts, p \in Pages, ps \in PageSizes}
    \cup {[NoRequest EXCEPT !.SQL = tSelect, !.Timeout = to, !.Page = 1] : to \in Timeouts}

ExportRequests == {[NoRequest EXCEPT !.SQL = t, !.Format = f, !.Limit = l] :
                      t \in ExecTexts, f \in ExportFormats, l \in ExportLimits}

NoExport == [status |-> 0, doc |-> NoDocument]

----------------------------------------------------------------------------
(* templates.Service: the seeded template and the keyword matching.  A      *)
(* character outside ASCII is written as one symbol that is neither a       *)
(* letter nor a space, so ToLower and TrimSpace leave it alone as they do   *)
(* in the code.                                                             *)

kwMendian == <<"@","#">>                \* the two-character word for "store"
kwRecent30 == <<"$","%","3","0","^">>   \* "last 30 days"
kwBaobiao == <<"&","*">>                \* "report"
kwStore == <<"s","t","o","r","e">>
kwXinzeng == <<"+","=">>                \* "newly added"

\* the stored SQL text of the seeded template, shortened
seedSQL == <<"S","E","L","E","C","T"," ","V","C","2","_","S","T","O","R","E","_",
             "C","O","D","E","\n","F","R","O","M"," ","M","M","_","S","T","O","R","E">>

defaultTemplates ==
    << [ID |-> "store_recent_activity", Name |-> "store-recent-30-days",
        Keywords |-> <<kwMendian, kwRecent30, kwBaobiao, kwStore, kwXinzeng>>,
        SQL |-> seedSQL] >>

NoTemplate == [ID |-> "", Name |-> "", Keywords |-> <<>>, SQL |-> <<>>]

\* one keyword of matchScore: trimmed, lower-cased, skipped when empty
KeywordHit(query, kw) == kw # <<>> /\ Contains(query, kw)

matchScore(query, keywords) ==
    Cardinality({i \in 1..Len(keywords) :
                    KeywordHit(query, ToLower(TrimSpace(keywords[i])))})

\* the loop of Match: a record replaces the best only with a higher score
RECURSIVE BestOf(_, _, _, _)
BestOf(list, normalized, score, best) ==
    IF list = <<>> THEN [score |-> score, best |-> best]
    ELSE IF matchScore(normalized, Head(list).Keywords) > score
    THEN BestOf(Tail(list), normalized,
                matchScore(normalized, Head(list).Keywords), Head(list))
    ELSE BestOf(Tail(list), normalized, score, best)

MinHits == 2

\* if score < 2 { return nil }
AboveMinHits(found) == IF found.score < MinHits THEN NoTemplate ELSE found.best

\* Service.Match on what Store.ListAll returned: [ok, list]
Match(listed, query) ==
    IF ~listed.ok THEN NoTemplate
    ELSE AboveMinHits(BestOf(listed.list, ToLower(query), 0, NoTemplate))

\* Store.ListAll: the query has no ORDER BY, so the rows come in an order of
\* the database's choosing; the query or a scan may fail
Orderings(records) ==
    {list \in [1..Cardinality(records) -> records] :
        \A i, j \in 1..Cardinality(records) : list[i] = list[j] => i = j}

ListAll(records) ==
    {[ok |-> FALSE, list |-> <<>>]}
        \cup {[ok |-> TRUE, list |-> list] : list \in Orderings(records)}

\* NewService: the seeded templates are saved into the store
NewService(records) ==
    {r \in records : \A i \in 1..Len(defaultTemplates) : r.ID # defaultTemplates[i].ID}
        \cup Range(defaultTemplates)

----------------------------------------------------------------------------
(* progress.Store: items is a map from request id to entry *)

NewEntry(stage, message) ==
    [Stage |-> stage, Message |-> message, Done |-> FALSE, Success |-> FALSE,
     Error |-> ""]

Put(items, id, entry) ==
    [k \in DOMAIN items \cup {id} |-> IF k = id THEN entry ELSE items[k]]

\* Store.Init: s.items[id] = &Entry{...}
StoreInit(items, id, stage, message) == Put(items, id, NewEntry(stage, message))

\* Store.Update: stage and message of an entry that exists
StoreUpdate(items, id, stage, message) ==
    IF id \in DOMAIN items
    THEN [items EXCEPT ![id].Stage = stage, ![id].Message = message]
    ELSE items

StoreComplete(items, id, message) ==
    IF id \in DOMAIN items
    THEN [items EXCEPT ![id].Stage = "completed", ![id].Message = message,
                       ![id].Done = TRUE, ![id].Success = TRUE]
    ELSE items

\* Store.Fail: the message is the fixed text "request failed"
StoreFail(items, id, message) ==
    IF id \in DOMAIN items
    THEN [items EXCEPT ![id].Stage = "failed", ![id].Message = "request failed",
                       ![id].Error = message, ![id].Done = TRUE,
                       ![id].Success = FALSE]
    ELSE items

\* APIHandler.updateProgress: Init when Get finds no entry, Update otherwise
updateProgress(items, requestID, stage, message) ==
    IF requestID = <<>> THEN items
    ELSE IF requestID \notin DOMAIN items
    THEN StoreInit(items, requestID, stage, message)
    ELSE StoreUpdate(items, requestID, stage, message)

completeProgress(items, requestID, message) ==
    IF requestID = <<>> THEN items ELSE StoreComplete(items, requestID, message)

failProgress(items, requestID, errMsg) ==
    IF requestID = <<>> THEN items ELSE StoreFail(items, requestID, errMsg)

----------------------------------------------------------------------------
(* memory.Store: the entries of each (user, session), oldest first *)

MemoryLimit == 5

EntriesOf(mem, key) == IF key \in DOMAIN mem THEN mem[key] ELSE <<>>

\* Store.Append: INSERT of one entry; the statement may fail
MemoryAppend(mem, key, entry, ok) ==
    IF ok THEN Put(mem, key, Append(EntriesOf(mem, key), entry)) ELSE mem

\* Store.GetRecent: the latest limit entries in chronological order, nil
\* when the query fails
GetRecent(mem, key, limit, ok) ==
    IF limit <= 0 \/ ~ok THEN <<>>
    ELSE SubSeq(EntriesOf(mem, key),
                Max(1, Len(EntriesOf(mem, key)) - limit + 1),
                Len(EntriesOf(mem, key)))

----------------------------------------------------------------------------
(* The generation orchestrator: APIHandler.GenerateSQL (REST) and            *)
(* APIHandler.handleWebSocketGeneration.  The LLM capability is outside the  *)
(* repository: env says what it, the stores' database and uuid.New() do for  *)
(* one request.  A handler threads h = [mem, items, stages, calls,           *)
(* appended, memAsked, memEntries, status, result, chat, success, metrics,   *)
(* frames, reads, matchAsked] through its steps.  Message texts are written  *)
(* in English; a reasoning or hint text is one string.                       *)

UserID == <<"u">>

GenerateTimeoutSeconds == 120
GuidanceTimeoutSeconds == 30

NoResponse ==
    [SQL |-> <<>>, Reasoning |-> "", Source |-> "", TemplateID |-> "",
     UsedMemory |-> FALSE, RequestID |-> <<>>]

Handling(mem, items) ==
    [mem |-> mem, items |-> items, stages |-> <<>>, calls |-> <<>>,
     appended |-> <<>>, memAsked |-> FALSE, memEntries |-> <<>>,
     status |-> "", result |-> NoResponse, chat |-> <<>>, success |-> FALSE,
     metrics |-> <<>>, frames |-> <<>>, reads |-> 0, matchAsked |-> FALSE]

\* h.updateProgress(requestID, stage, message)
Emit(h, requestID, stage, message) ==
    [h EXCEPT !.items = updateProgress(@, requestID, stage, message),
              !.stages = Append(@, stage)]

\* h.writeWSProgress(conn, stage, message)
EmitWS(h, stage) ==
    [h EXCEPT !.stages = Append(@, stage),
              !.frames = Append(@, [type |-> "progress", body |-> stage])]

\* h.writeWSChunk for every chunk the LLM hands to the callback, in order
WriteChunks(h, chunks) ==
    [h EXCEPT !.frames =
        @ \o [i \in 1..Len(chunks) |-> [type |-> "chunk", body |-> chunks[i]]]]

\* h.writeWSComplete / h.writeWSError
WriteTerminal(h, type) ==
    [h EXCEPT !.frames = Append(@, [type |-> type, body |-> ""])]

\* h.saveChatMessage: nothing is saved when the content is blank
saveChatMessage(h, sessionID, role, content, blank) ==
    IF blank THEN h
    ELSE [h EXCEPT !.chat = Append(@, [session |-> sessionID, role |-> role,
                                       content |-> content])]

\* formatSQLChatMessage: the trimmed SQL and the reasoning, never blank
formatSQLChatMessage(response) ==
    [SQL |-> TrimSpace(response.SQL), Reasoning |-> response.Reasoning]

\* success = true
Succeed(h) == [h EXCEPT !.success = TRUE]

\* the deferred h.recordMetric(event, start, success, metricExtra)
recordMetric(h, event, sessionID) ==
    [h EXCEPT !.metrics = Append(@, [event |-> event, success |-> h.success,
                                     session |-> sessionID])]

\* h.templateSvc.Match(req.Query) is called
Asked(h) == [h EXCEPT !.matchAsked = TRUE]

Complete(h, requestID, message) ==
    [h EXCEPT !.items = completeProgress(@, requestID, message)]

Fail(h, requestID, errMsg) == [h EXCEPT !.items = failProgress(@, requestID, errMsg)]

\* h.appendMemory(userID, sessionID, query, resp)
Persist(h, sessionID, query, response, ok) ==
    [h EXCEPT
       !.mem = MemoryAppend(@, sessionID,
                            [Query |-> query, SQL |-> response.SQL,
                             Reasoning |-> response.Reasoning,
                             Source |-> response.Source], ok),
       !.appended = Append(@, [Query |-> query, SQL |-> response.SQL,
                               Reasoning |-> response.Reasoning,
                               Source |-> response.Source])]

\* a call of the LLM capability under a context of its own, derived from
\* context.Background() with the given timeout
Call(h, name, timeout) ==
    [h EXCEPT !.calls = Append(@, [op |-> name, parent |-> "background",
                                   timeout |-> timeout])]

Loaded(h, memEntries) == [h EXCEPT !.memAsked = TRUE, !.memEntries = memEntries]

\* c.JSON(status, ...) / writeWSComplete / writeWSError
Finish(h, status, response) == [h EXCEPT !.status = status, !.result = response]

kwERROR == <<"E","R","R","O","R">>
kwNOTFOUND == <<"N","O","T"," ","F","O","U","N","D">>
kwDOESNOTCONTAIN == <<"D","O","E","S"," ","N","O","T"," ","C","O","N","T","A","I","N">>
kwNOTABLE == <<"N","O"," ","T","A","B","L","E">>

\* needsGuidance on the trimmed text
UnusableTrimmed(text) ==
    \/ text = <<>>
    \/ HasPrefix(ToUpper(text), kwERROR)
    \/ Contains(ToUpper(text), kwNOTFOUND)
    \/ Contains(ToUpper(text), kwDOESNOTCONTAIN)
    \/ Contains(ToUpper(text), kwNOTABLE)

needsGuidance(text) == UnusableTrimmed(TrimSpace(text))

\* generateGuidanceResponse: nil (NoResponse) when GenerateGuidance fails
generateGuidanceResponse(env, requestID) ==
    IF env.guide.err # "" THEN NoResponse
    ELSE [SQL |-> <<>>, Reasoning |-> env.guide.hint, Source |-> "assistant_hint",
          TemplateID |-> "", UsedMemory |-> FALSE, RequestID |-> requestID]

TemplateResponse(found, requestID) ==
    [SQL |-> found.SQL, Reasoning |-> "matched built-in report template",
     Source |-> "template", TemplateID |-> found.ID, UsedMemory |-> FALSE,
     RequestID |-> requestID]

\* resp of the LLM with Source, UsedMemory and RequestID set by the handler
LLMResponse(env, memEntries, requestID) ==
    [SQL |-> env.llm.SQL, Reasoning |-> env.llm.reasoning, Source |-> "llm",
     TemplateID |-> "", UsedMemory |-> Len(memEntries) > 0, RequestID |-> requestID]

EffectiveSession(request) ==
    IF TrimSpace(request.SessionID) = <<>> THEN UserID ELSE TrimSpace(request.SessionID)

\* GenerateSQL, result accepted: persisted to memory, progress completed
RestAccept(request, env, sessionID, requestID, response, h) ==
    Finish(saveChatMessage(
               Complete(Succeed(Persist(h, sessionID, request.Query, response,
                                        env.appendOk)),
                        requestID, "generation completed"),
               sessionID, "assistant", formatSQLChatMessage(response), FALSE),
           "200", response)

\* GenerateSQL after the guidance call of the guardrail
RestGuided(request, env, sessionID, requestID, response, guidance, h) ==
    IF guidance # NoResponse
    THEN Finish(Complete(saveChatMessage(h, sessionID, "assistant",
                                         guidance.Reasoning,
                                         guidance.Reasoning = ""),
                         requestID, "generation completed (hint)"),
                "200", guidance)
    ELSE RestAccept(request, env, sessionID, requestID, response, h)

\* GenerateSQL with the LLM's answer: if h.needsGuidance(resp.SQL) { ... }
RestGuardrail(request, env, sessionID, requestID, response, h) ==
    IF needsGuidance(response.SQL)
    THEN RestGuided(request, env, sessionID, requestID, response,
                    generateGuidanceResponse(env, requestID),
                    Call(h, "GenerateGuidance", GuidanceTimeoutSeconds))
    ELSE RestAccept(request, env, sessionID, requestID, response, h)

\* GenerateSQL after a hard failure of the LLM: guidance, else failed
RestHardFailure(env, sessionID, requestID, guidance, h) ==
    IF guidance # NoResponse
    THEN Finish(saveChatMessage(h, sessionID, "assistant", guidance.Reasoning,
                                guidance.Reasoning = ""),
                "200", guidance)
    ELSE Finish(Fail(h, requestID, env.llm.err), "500", NoResponse)

\* resp, err := h.llmClient.GenerateSQL(ctx, &req, schemaContext, memoryContext)
RestLLM(request, env, sessionID, requestID, h) ==
    IF env.llm.err # ""
    THEN RestHardFailure(env, sessionID, requestID,
                         generateGuidanceResponse(env, requestID),
                         Call(h, "GenerateGuidance", GuidanceTimeoutSeconds))
    ELSE RestGuardrail(request, env, sessionID, requestID,
                       LLMResponse(env, h.memEntries, requestID), h)

\* memory_loaded is reported when entries came back, llm_call always
RestMemory(request, env, sessionID, requestID, h) ==
    RestLLM(request, env, sessionID, requestID,
            Call(Emit(IF Len(h.memEntries) > 0
                      THEN Emit(h, requestID, "memory_loaded", "memory entries found")
                      ELSE h,
                      requestID, "llm_call", "LLM is generating SQL"),
                 "GenerateSQL", GenerateTimeoutSeconds))

RestContext(request, env, sessionID, requestID, h) ==
    RestMemory(request, env, sessionID, requestID,
               Loaded(h, GetRecent(h.mem, sessionID, MemoryLimit, env.memOk)))

RestTemplate(request, env, sessionID, requestID, response, h) ==
    Finish(saveChatMessage(
               Complete(Succeed(Persist(h, sessionID, request.Query, response,
                                        env.appendOk)),
                        requestID, "generation completed (template)"),
               sessionID, "assistant", formatSQLChatMessage(response), FALSE),
           "200", response)

\* RestMatch with the template short-circuit taken out
RestMatchNoShortCircuit(request, env, sessionID, requestID, found, h) ==
    RestContext(request, env, sessionID, requestID,
                Emit(h, requestID, "prepare_context", "loading database metadata"))

\* Step 1 of GenerateSQL: if tpl := h.templateSvc.Match(req.Query); tpl != nil
RestMatch(request, env, sessionID, requestID, found, h) ==
    IF found # NoTemplate
    THEN RestTemplate(request, env, sessionID, requestID,
                      TemplateResponse(found, requestID),
                      Emit(h, requestID, "template_matched", "template matched"))
    ELSE RestContext(request, env, sessionID, requestID,
                     Emit(h, requestID, "prepare_context", "loading database metadata"))

\* uuid.New(): an id no entry of the store has
NewUUID(items) == <<"u">> \o Itoa(Cardinality(DOMAIN items))

\* requestID := strings.TrimSpace(req.RequestID), uuid.New() when empty
RestRequestID(request, items) ==
    IF TrimSpace(request.RequestID) = <<>> THEN NewUUID(items)
    ELSE TrimSpace(request.RequestID)

RestReceived(request, env, sessionID, requestID, found, h) ==
    RestMatch(request, env, sessionID, requestID, found,
              Asked(Emit(h, requestID, "received", "generation request received")))

\* GenerateSQL once the request is bound: the user's message is saved, the
\* metric is deferred, and the pipeline runs
RestBound(request, env, listed, sessionID, items, h) ==
    recordMetric(
        RestReceived(request, env, sessionID, RestRequestID(request, items),
                     Match(listed, request.Query),
                     saveChatMessage(h, sessionID, "user", request.Query,
                                     TrimSpace(request.Query) = <<>>)),
        "generate_rest", sessionID)

\* APIHandler.GenerateSQL; listed is what Store.ListAll returns to Match.
\* c.ShouldBindJSON fails on a payload that is no JSON object of the request
\* type and on an empty query (binding:"required")
GenerateSQL(request, env, listed, mem, items) ==
    IF ~env.payloadOk \/ request.Query = <<>>
    THEN Finish(Handling(mem, items), "400", NoResponse)
    ELSE RestBound(request, env, listed, EffectiveSession(request), items,
                   Handling(mem, items))

\* writeWSComplete / writeWSError as the last step of the handler
FinishWS(h, status, response) == WriteTerminal(Finish(h, status, response), status)

\* WSLLM answering an error and then going on to the result
WSLLMFallsThrough(request, env, sessionID, h) ==
    FinishWS(IF env.llm.err # "" THEN FinishWS(h, "error", NoResponse) ELSE h,
             "complete", LLMResponse(env, h.memEntries, request.RequestID))

\* handleWebSocketGeneration with the LLM's answer
WSLLM(request, env, sessionID, h) ==
    IF env.llm.err # "" THEN FinishWS(h, "error", NoResponse)
    ELSE FinishWS(Succeed(saveChatMessage(
                      Persist(h, sessionID, request.Query,
                              LLMResponse(env, h.memEntries, request.RequestID),
                              env.appendOk),
                      sessionID, "assistant",
                      formatSQLChatMessage(
                          LLMResponse(env, h.memEntries, request.RequestID)),
                      FALSE)),
                  "complete", LLMResponse(env, h.memEntries, request.RequestID))

\* the chunks are written by the callback while GenerateSQLStream runs
WSMemory(request, env, sessionID, h) ==
    WSLLM(request, env, sessionID,
          WriteChunks(
              Call(EmitWS(IF Len(h.memEntries) > 0
                          THEN EmitWS(h, "memory_loaded") ELSE h,
                          "llm_call"),
                   "GenerateSQLStream", GenerateTimeoutSeconds),
              env.llm.chunks))

WSContext(request, env, sessionID, h) ==
    WSMemory(request, env, sessionID,
             Loaded(h, GetRecent(h.mem, sessionID, MemoryLimit, env.memOk)))

WSTemplate(request, env, sessionID, response, h) ==
    FinishWS(Succeed(saveChatMessage(
                 Persist(h, sessionID, request.Query, response, env.appendOk),
                 sessionID, "assistant", formatSQLChatMessage(response), FALSE)),
             "complete", response)

WSMatch(request, env, sessionID, found, h) ==
    IF found # NoTemplate
    THEN WSTemplate(request, env, sessionID,
                    TemplateResponse(found, request.RequestID),
                    EmitWS(h, "template_matched"))
    ELSE WSContext(request, env, sessionID, EmitWS(h, "prepare_context"))

\* APIHandler.handleWebSocketGeneration on the connection state h
handleWebSocketGeneration(request, env, listed, h) ==
    recordMetric(
        WSMatch(request, env, EffectiveSession(request),
                Match(listed, request.Query),
                Asked(saveChatMessage(EmitWS(h, "received"),
                                      EffectiveSession(request), "user",
                                      request.Query,
                                      TrimSpace(request.Query) = <<>>))),
        "generate_ws", EffectiveSession(request))

\* conn.ReadJSON(&req)
ReadRequest(h) == [h EXCEPT !.reads = @ + 1]

\* SQLWebSocket: the query trimmed, session id and request id defaulted
NormalizeWS(request, items) ==
    [Query |-> TrimSpace(request.Query),
     SessionID |-> IF request.SessionID = <<>> THEN UserID ELSE request.SessionID,
     RequestID |-> IF request.RequestID = <<>> THEN NewUUID(items)
                   ELSE request.RequestID]

\* APIHandler.SQLWebSocket after the upgrade: one request is read, then the
\* handler only writes
SQLWebSocket(request, env, listed, mem, items) ==
    IF ~env.payloadOk \/ TrimSpace(request.Query) = <<>>
    THEN FinishWS(ReadRequest(Handling(mem, items)), "error", NoResponse)
    ELSE handleWebSocketGeneration(NormalizeWS(request, items), env, listed,
                                   ReadRequest(Handling(mem, items)))

----------------------------------------------------------------------------
(* Inputs of the generation specifications *)

MaxRequests == 2      \* generation requests handled in one behaviour

\* templates saved by users next to the seeded one; the handlers that save a
\* template keep its keywords trimmed and non-empty (normalizeKeywords)
tplReports ==
    [ID |-> "t2", Name |-> "reports",
     Keywords |-> << <<"S","t","o","r","e">>, kwBaobiao >>,
     SQL |-> <<"S","E","L","E","C","T"," ","2">>]
tplGreeting ==
    [ID |-> "t3", Name |-> "greeting",
     Keywords |-> << <<"h","e">>, <<"L","L">>, <<"z","z","z">> >>,
     SQL |-> <<"S","E","L","E","C","T"," ","3">>]

TemplateSets == {NewService(extra) : extra \in SUBSET {tplReports, tplGreeting}}

qStore == kwStore                                          \* one seeded keyword
qTie == <<"S","T","O","R","E"," ","&","*">>                \* two keywords
qBest == <<"@","#","s","t","o","r","e","&","*">>           \* three keywords
qHello == <<"H","e","l","l","o">>
qNone == <<"z","z">>

MatchQueries == {qStore, kwMendian, qTie, qBest, qHello, qNone}

sqlGood == <<"S","E","L","E","C","T"," ","1">>
sqlErrorNotFound == <<"E","R","R","O","R",":"," ","t","a","b","l","e"," ",
                      "n","o","t"," ","f","o","u","n","d">>
sqlNoTable == <<" ","n","o"," ","T","a","b","l","e">>
sqlBlank == <<" ">>

\* an answer of the LLM capability: chunks are what the streaming variant
\* hands to its callback before it returns
llmGood == [err |-> "", SQL |-> sqlGood, reasoning |-> "reasoning",
            chunks |-> <<"c1", "c2">>]
LLMAnswers ==
    {[llmGood EXCEPT !.SQL = t] :
        t \in {sqlGood, sqlErrorNotFound, sqlNoTable, sqlBlank}}
llmDeadline == [err |-> "context deadline exceeded", SQL |-> <<>>, reasoning |-> "",
                chunks |-> <<"c1">>]
guideOk == [err |-> "", hint |-> "hint"]
GuidanceOutcomes == {guideOk, [err |-> "guidance failed", hint |-> ""]}

reqBase == [Query |-> qNone, SessionID |-> <<"s","1">>, RequestID |-> <<" ","r","1">>]
reqTemplate == [reqBase EXCEPT !.Query = qTie]
reqKeyword == [reqBase EXCEPT !.Query = qStore]
reqAnonymous == [reqBase EXCEPT !.SessionID = <<" ">>, !.RequestID = <<>>]
reqEmpty == [reqBase EXCEPT !.Query = <<>>]
reqBlank == [reqBase EXCEPT !.Query = <<" ", " ">>]

envBase == [llm |-> llmGood, guide |-> guideOk, memOk |-> TRUE, appendOk |-> TRUE,
            payloadOk |-> TRUE]

\* the cases of one request: [request, env, listed]
\*   every answer of the LLM and of the guidance call for the base request,
\*   the other requests with a good answer, each store failing, a missed
\*   deadline for a request that names no session and no id, and a payload
\*   that cannot be decoded
GenCases(records) ==
    LET listings == {l \in ListAll(records) : l.ok}
        failed == CHOOSE l \in ListAll(records) : ~l.ok
    IN  {[request |-> reqBase, env |-> [envBase EXCEPT !.llm = a, !.guide = g],
          listed |-> l] :
            a \in LLMAnswers \cup {llmDeadline}, g \in GuidanceOutcomes, l \in listings}
        \cup {[request |-> r, env |-> envBase, listed |-> l] :
                r \in {reqTemplate, reqKeyword, reqAnonymous, reqEmpty, reqBlank},
                l \in listings}
        \cup {[request |-> reqBase, env |-> e, listed |-> l] :
                e \in {[envBase EXCEPT !.memOk = FALSE],
                       [envBase EXCEPT !.appendOk = FALSE],
                       [envBase EXCEPT !.payloadOk = FALSE]}, l \in listings}
        \cup {[request |-> reqTemplate, env |-> [envBase EXCEPT !.appendOk = FALSE],
               listed |-> l] : l \in listings}
        \cup {[request |-> r, env |-> envBase, listed |-> failed] :
                r \in {reqBase, reqTemplate}}
        \cup {[request |-> reqAnonymous,
               env |-> [envBase EXCEPT !.llm = llmDeadline, !.guide = g],
               listed |-> l] : g \in GuidanceOutcomes, l \in listings}

NoMatch == [called |-> FALSE, query |-> <<>>, ok |-> FALSE, list |-> <<>>,
            result |-> NoTemplate,
            prev |-> [called |-> FALSE, query |-> <<>>, ok |-> FALSE,
                      result |-> NoTemplate]]

NoGen == [handled |-> 0, transport |-> "",
          request |-> [Query |-> <<>>, SessionID |-> <<>>, RequestID |-> <<>>],
          seen |-> [Query |-> <<>>, SessionID |-> <<>>, RequestID |-> <<>>],
          requestID |-> <<>>, session |-> <<>>,
          llm |-> [err |-> "", SQL |-> <<>>, reasoning |-> "", chunks |-> <<>>],
          guide |-> [err |-> "", hint |-> ""], memOk |-> TRUE, appendOk |-> TRUE,
          found |-> NoTemplate, created |-> FALSE, stages |-> <<>>, calls |-> <<>>,
          appended |-> <<>>, memAsked |-> FALSE, memEntries |-> <<>>,
          stored |-> <<>>, status |-> "", result |-> NoResponse,
          chat |-> <<>>, metrics |-> <<>>, frames |-> <<>>, reads |-> 0,
          matchAsked |-> FALSE]

uAlice == <<"u","1">>
uBob == <<"u","2">>
UserIDs == {uAlice, uBob}

\* rows of the report, chat and memory tables: each user owns one of each
SeedReports == {[id |-> "r1", user |-> uAlice], [id |-> "r2", user |-> uBob]}
ChatRows ==
    {[user |-> uAlice, session |-> "s1", content |-> "m1"],
     [user |-> uBob, session |-> "s1", content |-> "m2"],
     [user |-> uBob, session |-> "s2", content |-> "m3"]}
MemoryRows ==
    {[user |-> uAlice, session |-> "s1", query |-> "q1"],
     [user |-> uBob, session |-> "s1", query |-> "q2"],
     [user |-> uBob, session |-> "s3", query |-> "q3"]}

\* goroutines that may run lookupColumnComments at the same time
Callers == {1, 2}

IdleLookup ==
    [pc |-> "idle", columns |-> <<>>, unique |-> <<>>, toFetch |-> <<>>,
     fetched |-> <<>>, result |-> <<>>, failed |-> FALSE, queried |-> FALSE]

\* no request is in flight, no schema context has been built
InitAux ==
    /\ pending = {}
    /\ schema = [built |-> FALSE]
    /\ lookups = [p \in Callers |-> IdleLookup]
    /\ mu = [readers |-> {}, writer |-> 0]
    /\ scope = [reports |-> SeedReports, served |-> FALSE]

\* the stores after construction: the seeded template is saved, nothing else
InitServices ==
    /\ InitAux
    /\ tpl = NewService({})
    /\ match = NoMatch
    /\ memory = <<>>
    /\ progress = <<>>
    /\ gen = NoGen

----------------------------------------------------------------------------
(* The executor and the export handler as a state machine *)

Init ==
    /\ sql = <<>>
    /\ verdict = "pending"
    /\ \E cfg \in Configs : exec = New(cfg)
    /\ dbTotal \in 0..MaxRows
    /\ cache = <<>>
    /\ req = NoRequest
    /\ engine = "ok"
    /\ resp = ZeroResponse
    /\ hardErr = NoError
    /\ dbCalls = <<>>
    /\ doc = NoExport
    /\ op = "idle"
    /\ InitServices

\* APIHandler.ExecuteSQL: ctx of 60 seconds around SQLExecutor.ExecuteSQL
HandlerTimeoutSeconds == 60

\* context.WithTimeout(parent, d): the earlier of the parent's deadline and d
WithTimeout(parent, d) == IF d < parent THEN d ELSE parent

\* the statements as they run under a parent context of the given deadline
UnderDeadline(calls, parent) ==
    [i \in 1..Len(calls) |-> [calls[i] EXCEPT !.timeout = WithTimeout(parent, @)]]

\* APIHandler.ExecuteSQL / SQLExecutor.ExecuteSQL on one request
HandleExecute ==
    /\ op = "idle"
    /\ \E request \in ExecRequests, outcome \in EngineOutcomes :
          \E r \in {ExecuteSQL(exec, request, dbTotal, cache, outcome)} :
              /\ req' = request
              /\ engine' = (IF r.calls = <<>> THEN "ok" ELSE outcome)
              /\ resp' = r.resp
              /\ hardErr' = r.err
              /\ cache' = r.cache
              /\ dbCalls' = UnderDeadline(r.calls, HandlerTimeoutSeconds)
    /\ op' = "execute"
    /\ UNCHANGED <<sql, verdict, exec, dbTotal, doc>>
    /\ UNCHANGED genVars

\* APIHandler.ExportSQLResult on one request
HandleExport ==
    /\ op = "idle"
    /\ \E request \in ExportRequests, outcome \in EngineOutcomes :
          \E r \in {ExportSQLResult(request, dbTotal, cache, outcome)} :
              /\ req' = request
              /\ engine' = (IF r.calls = <<>> THEN "ok" ELSE outcome)
              /\ doc' = [status |-> r.status, doc |-> r.doc]
              /\ cache' = r.cache
              /\ dbCalls' = r.calls
    /\ op' = "export"
    /\ UNCHANGED <<sql, verdict, exec, dbTotal, resp, hardErr>>
    /\ UNCHANGED genVars

\* the response has been written; the handler returns
Respond ==
    /\ op \in {"execute", "export"}
    /\ op' = "idle"
    /\ req' = NoRequest
    /\ engine' = "ok"
    /\ resp' = ZeroResponse
    /\ hardErr' = NoError
    /\ dbCalls' = <<>>
    /\ doc' = NoExport
    /\ UNCHANGED <<sql, verdict, exec, dbTotal, cache>>
    /\ UNCHANGED genVars

Next == HandleExecute \/ HandleExport \/ Respond

Spec == Init /\ [][Next]_vars

----------------------------------------------------------------------------
(* The validator alone, applied to every text of SQLTexts *)

InitValidate ==
    /\ sql \in SQLTexts
    /\ verdict = "pending"
    /\ exec = New([SQLDefaultPageSize |-> 0, SQLMaxPageSize |-> 0,
                   SensitiveColumns |-> <<>>])
    /\ dbTotal = 0
    /\ cache = <<>>
    /\ req = NoRequest
    /\ engine = "ok"
    /\ resp = ZeroResponse
    /\ hardErr = NoError
    /\ dbCalls = <<>>
    /\ doc = NoExport
    /\ op = "idle"
    /\ InitServices

\* SQLExecutor.ValidateSQL on the text
Validate ==
    /\ verdict = "pending"
    /\ verdict' = ValidateSQL(sql)
    /\ op' = "validate"
    /\ UNCHANGED <<sql, exec, dbTotal, cache, req, engine, resp, hardErr, dbCalls, doc>>
    /\ UNCHANGED genVars

NextValidate == Validate

SpecValidate == InitValidate /\ [][NextValidate]_vars

----------------------------------------------------------------------------
(* The generation orchestrator as a state machine: one action per handler,  *)
(* the stores live on between requests                                       *)

\* the executor side at rest
ExecutorIdle ==
    /\ sql = <<>>
    /\ verdict = "pending"
    /\ exec = New([SQLDefaultPageSize |-> 0, SQLMaxPageSize |-> 0,
                   SensitiveColumns |-> <<>>])
    /\ dbTotal = 0
    /\ cache = <<>>
    /\ req = NoRequest
    /\ engine = "ok"
    /\ resp = ZeroResponse
    /\ hardErr = NoError
    /\ dbCalls = <<>>
    /\ doc = NoExport
    /\ op = "idle"

InitGenerate ==
    /\ ExecutorIdle
    /\ InitAux
    /\ tpl = NewService({tplReports})
    /\ match = NoMatch
    /\ memory = <<>>
    /\ progress = <<>>
    /\ gen = NoGen

\* what a handler leaves behind: the stores and the record of the request;
\* seen is the request as the pipeline gets it, stored the session's memory
\* as the handler found it
Handled(transport, case, seen, requestID, h) ==
    /\ memory' = h.mem
    /\ progress' = h.items
    /\ gen' = [handled |-> gen.handled + 1, transport |-> transport,
               request |-> case.request, seen |-> seen,
               requestID |-> requestID,
               session |-> EffectiveSession(case.request),
               llm |-> case.env.llm, guide |-> case.env.guide,
               memOk |-> case.env.memOk, appendOk |-> case.env.appendOk,
               found |-> Match(case.listed, seen.Query),
               created |-> requestID \notin DOMAIN progress
                              /\ requestID \in DOMAIN h.items,
               stages |-> h.stages, calls |-> h.calls, appended |-> h.appended,
               memAsked |-> h.memAsked, memEntries |-> h.memEntries,
               stored |-> EntriesOf(memory, EffectiveSession(case.request)),
               status |-> h.status, result |-> h.result,
               chat |-> h.chat, metrics |-> h.metrics, frames |-> h.frames,
               reads |-> h.reads, matchAsked |-> h.matchAsked]

\* POST /sql/generate
HandleGenerate ==
    /\ gen.handled < MaxRequests
    /\ \E case \in GenCases(tpl) :
          \E h \in {GenerateSQL(case.request, case.env, case.listed, memory, progress)} :
              Handled("rest", case, case.request,
                      RestRequestID(case.request, progress), h)
    /\ UNCHANGED <<tpl, match, auxVars>>
    /\ UNCHANGED execVars

\* GET /api/ws/sql: one request read from the upgraded connection
HandleWebSocket ==
    /\ gen.handled < MaxRequests
    /\ \E case \in GenCases(tpl) :
          \E h \in {SQLWebSocket(case.request, case.env, case.listed,
                                 memory, progress)} :
              Handled("ws", case, NormalizeWS(case.request, progress),
                      NormalizeWS(case.request, progress).RequestID, h)
    /\ UNCHANGED <<tpl, match, auxVars>>
    /\ UNCHANGED execVars

NextGenerate == HandleGenerate \/ HandleWebSocket

SpecGenerate == InitGenerate /\ [][NextGenerate]_vars

----------------------------------------------------------------------------
(* Service.Match called again and again on a store that does not change *)

InitMatch ==
    /\ ExecutorIdle
    /\ InitAux
    /\ tpl \in TemplateSets
    /\ match = NoMatch
    /\ memory = <<>>
    /\ progress = <<>>
    /\ gen = NoGen

CallMatch ==
    /\ \E query \in MatchQueries, listed \in ListAll(tpl) :
          match' = [called |-> TRUE, query |-> query, ok |-> listed.ok,
                    list |-> listed.list, result |-> Match(listed, query),
                    prev |-> [called |-> match.called, query |-> match.query,
                              ok |-> match.ok, result |-> match.result]]
    /\ UNCHANGED <<tpl, memory, progress, gen, auxVars>>
    /\ UNCHANGED execVars

NextMatch == CallMatch

SpecMatch == InitMatch /\ [][NextMatch]_vars

----------------------------------------------------------------------------
(* progress.Store as the handlers of concurrent requests call it.  Init is  *)
(* called by updateProgress only, after its Get found no entry; the two    *)
(* calls take the store's lock one after the other, so other callers run   *)
(* between them.                                                            *)

ProgressIDs == {<<"r","1">>, <<"r","2">>}
ProgressStages == {"received", "llm_call"}
ProgressMessages == {"m1", "m2"}

InitProgress ==
    /\ ExecutorIdle
    /\ InitServices

\* updateProgress(id, "received", message): Get finds no entry
ProgressGet ==
    /\ \E id \in ProgressIDs \ DOMAIN progress, message \in ProgressMessages :
          /\ [id |-> id, message |-> message] \notin pending
          /\ pending' = pending \cup {[id |-> id, message |-> message]}
    /\ UNCHANGED <<tpl, match, memory, progress, gen, schema, lockVars, scope>>
    /\ UNCHANGED execVars

\* updateProgress after the miss: h.progressStore.Init(requestID, stage, message)
ProgressInit ==
    /\ \E caller \in pending :
          /\ progress' = StoreInit(progress, caller.id, "received", caller.message)
          /\ pending' = pending \ {caller}
    /\ UNCHANGED <<tpl, match, memory, gen, schema, lockVars, scope>>
    /\ UNCHANGED execVars

ProgressUpdate ==
    /\ \E id \in ProgressIDs, stage \in ProgressStages, message \in ProgressMessages :
          progress' = StoreUpdate(progress, id, stage, message)
    /\ UNCHANGED <<tpl, match, memory, gen, auxVars>>
    /\ UNCHANGED execVars

ProgressComplete ==
    /\ \E id \in ProgressIDs, message \in ProgressMessages :
          progress' = StoreComplete(progress, id, message)
    /\ UNCHANGED <<tpl, match, memory, gen, auxVars>>
    /\ UNCHANGED execVars

ProgressFail ==
    /\ \E id \in ProgressIDs, message \in ProgressMessages :
          progress' = StoreFail(progress, id, message)
    /\ UNCHANGED <<tpl, match, memory, gen, auxVars>>
    /\ UNCHANGED execVars

NextProgress ==
    ProgressGet \/ ProgressInit \/ ProgressUpdate \/ ProgressComplete \/ ProgressFail

SpecProgress == InitProgress /\ [][NextProgress]_vars

----------------------------------------------------------------------------
(* APIHandler.getDatabaseSchemaContext.  Tables are numbered in the order   *)
(* of targetTables.  Time is counted in seconds from the creation of the    *)
(* caller's context, whose deadline is input.deadline; only calls of the    *)
(* database take time.  The text is the sequence of the pieces written to   *)
(* the builder.                                                             *)

maxTables == 10
maxAttempts == 40
TableTimeoutSeconds == 2

\* what GetTableSchema does for the i-th table, left alone: the first lead
\* tables fail, the next wins tables answer, the others do as tail says
NominalFetch(input, i) ==
    IF i <= input.lead THEN "fail"
    ELSE IF i <= input.lead + input.wins THEN "ok" ELSE input.tail

\* GetTableSchema under tableCtx: an answer that takes as long as the
\* context allows, or longer, is an error
FetchResult(input, i, timeout) ==
    IF NominalFetch(input, i) = "ok" /\ input.okCost < timeout THEN "ok" ELSE "fail"

\* GetTableSchema running on after tableCtx has expired
FetchSecondsUnbounded(input, i, timeout) ==
    IF NominalFetch(input, i) = "ok" THEN input.okCost ELSE input.failCost

\* seconds the call takes: an answer takes okCost, a failure failCost, a
\* call that never answers ends when tableCtx expires
FetchSeconds(input, i, timeout) ==
    Min(timeout, IF NominalFetch(input, i) = "ok" THEN input.okCost
                 ELSE input.failCost)

\* one pass of the loop body after the three break tests
FetchTable(st, input, i, timeout) ==
    [st EXCEPT
       !.i = i + 1,
       !.now = @ + FetchSeconds(input, i, timeout),
       !.attemptCount = @ + 1,
       !.fetches = Append(@, [table |-> i, at |-> st.now, timeout |-> timeout]),
       !.successCount = IF FetchResult(input, i, timeout) = "ok" THEN @ + 1 ELSE @,
       !.text = IF FetchResult(input, i, timeout) = "ok"
                THEN Append(@, [piece |-> "table", table |-> i]) ELSE @,
       !.fallbackTables = IF FetchResult(input, i, timeout) = "ok" THEN @
                          ELSE Append(@, i)]

\* for _, table := range targetTables { ... }
RECURSIVE TableLoop(_, _, _)
TableLoop(st, input, n) ==
    IF st.i > n THEN [st EXCEPT !.stop = "end"]
    ELSE IF st.now >= input.deadline THEN [st EXCEPT !.stop = "deadline"]
    ELSE IF st.attemptCount >= maxAttempts /\ st.successCount > 0
    THEN [st EXCEPT !.stop = "attempts"]
    ELSE IF st.successCount >= maxTables
    THEN [st EXCEPT !.stop = "tables",
                    !.text = Append(@, [piece |-> "more", table |-> 0])]
    ELSE TableLoop(FetchTable(st, input, st.i,
                              WithTimeout(input.deadline - st.now,
                                          TableTimeoutSeconds)),
                   input, n)

\* the fallback list without its limit
FallbackListUnbounded(st) ==
    IF st.successCount = 0 /\ Len(st.fallbackTables) > 0
    THEN [st EXCEPT !.text =
            @ \o <<[piece |-> "restricted", table |-> 0]>>
              \o [k \in 1..Len(st.fallbackTables) |->
                     [piece |-> "name", table |-> st.fallbackTables[k]]]]
    ELSE st

\* if successCount == 0 && len(fallbackTables) > 0 { ... }
FallbackList(st) ==
    IF st.successCount = 0 /\ Len(st.fallbackTables) > 0
    THEN [st EXCEPT !.text =
            @ \o <<[piece |-> "restricted", table |-> 0]>>
              \o [k \in 1..Min(Len(st.fallbackTables), maxTables) |->
                     [piece |-> "name", table |-> st.fallbackTables[k]]]]
    ELSE st

SchemaStart(now) ==
    [i |-> 1, now |-> now, attemptCount |-> 0, successCount |-> 0,
     fetches |-> <<>>, fallbackTables |-> <<>>, stop |-> "", err |-> "",
     text |-> <<[piece |-> "header", table |-> 0]>>]

\* the build with targetTables known
BuildFor(input, n) ==
    IF n = 0
    THEN [SchemaStart(0) EXCEPT !.stop = "empty",
                                !.text = <<[piece |-> "unavailable", table |-> 0]>>]
    ELSE FallbackList(TableLoop(SchemaStart(0), input, n))

\* APIHandler.getDatabaseSchemaContext: the tables named by the caller, or
\* those GetAllTables lists; GetAllTables may fail at once or at the deadline
getDatabaseSchemaContext(input) ==
    IF input.listing = "filter" THEN BuildFor(input, input.tables)
    ELSE IF input.listing = "ok" THEN BuildFor(input, input.tables)
    ELSE [SchemaStart(IF input.listing = "hang" THEN input.deadline ELSE 0)
             EXCEPT !.stop = "list", !.err = "list tables failed", !.text = <<>>]

MaxCandidates == 45   \* tables in targetTables

SchemaPatterns ==
    [tables : {0, 1, 11, 41, MaxCandidates}, lead : {0, 1, 30, 40},
     wins : {0, 1, 10}, tail : {"ok", "fail"}, okCost : {0, 1},
     failCost : {0, TableTimeoutSeconds + 1}, deadline : {5, 120},
     listing : {"filter", "ok"}]

\* a caller's filter names at least one table; GetAllTables failing
SchemaInputs ==
    {p \in SchemaPatterns : p.listing = "filter" => p.tables > 0}
        \cup {[tables |-> 0, lead |-> 0, wins |-> 0, tail |-> "ok", okCost |-> 0,
               failCost |-> 0, deadline |-> d, listing |-> l] :
                 d \in {5, 120}, l \in {"err", "hang"}}

InitSchema ==
    /\ ExecutorIdle
    /\ InitServices

\* a build keeps nothing between calls: a behaviour follows one build
BuildSchema ==
    /\ ~schema.built
    /\ \E input \in SchemaInputs :
          \E r \in {getDatabaseSchemaContext(input)} :
              schema' = [built |-> TRUE, input |-> input, text |-> r.text,
                         err |-> r.err, fetches |-> r.fetches, stop |-> r.stop,
                         elapsed |-> r.now, successCount |-> r.successCount,
                         attemptCount |-> r.attemptCount,
                         fallbackTables |-> r.fallbackTables]
    /\ UNCHANGED <<tpl, match, memory, progress, gen, pending, lockVars, scope>>
    /\ UNCHANGED execVars

NextSchema == BuildSchema

SpecSchema == InitSchema /\ [][NextSchema]_vars

----------------------------------------------------------------------------
(* OracleClient.lookupColumnComments run by concurrent callers.  A frame's  *)
(* pc says where its caller stands: "rlock" before c.mu.RLock(), "reading"  *)
(* with the read lock held, "query" in fetchColumnComments with no lock,    *)
(* "locking" inside c.mu.Lock(), "writing" with the write lock held, "done" *)
(* when the call has returned.  A caller inside Lock() keeps new readers    *)
(* out, as sync.RWMutex does.                                               *)

cIdSpaced == <<" ","i","d">>

LookupColumns == {<<cID, cSsn>>, <<cSsn, cPHONE>>, <<cIdSpaced, cNOTE>>, <<cID>>}

Holds(p) == p \in mu.readers \/ mu.writer = p

otherVars ==
    <<sql, verdict, exec, dbTotal, req, engine, resp, hardErr, dbCalls, doc, op,
      tpl, match, memory, progress, gen, pending, schema, scope>>

\* the keys of the call, blank and repeated names left out; no key, no lock
LookupCall(p) ==
    /\ lookups[p].pc = "idle"
    /\ \E columns \in LookupColumns :
          lookups' = [lookups EXCEPT ![p] =
              [IdleLookup EXCEPT
                 !.columns = columns,
                 !.unique = UniqueKeys(columns, {}),
                 !.pc = IF UniqueKeys(columns, {}) = <<>> THEN "done" ELSE "rlock"]]
    /\ UNCHANGED <<cache, mu>>
    /\ UNCHANGED otherVars

\* c.mu.RLock()
RLock(p) ==
    /\ lookups[p].pc = "rlock"
    /\ mu.writer = 0
    /\ \A q \in Callers : lookups[q].pc # "locking"
    /\ mu' = [mu EXCEPT !.readers = @ \cup {p}]
    /\ lookups' = [lookups EXCEPT ![p].pc = "reading"]
    /\ UNCHANGED cache
    /\ UNCHANGED otherVars

\* what the scan of the cache leaves in the frame
ReadCache(frame, cached) ==
    [frame EXCEPT
       !.toFetch = SelectSeq(frame.unique, LAMBDA k : k \notin DOMAIN cached),
       !.result = [k \in {u \in Range(frame.unique) :
                             u \in DOMAIN cached /\ cached[u] # <<>>} |-> cached[k]],
       !.pc = IF \A k \in Range(frame.unique) : k \in DOMAIN cached
              THEN "done" ELSE "query"]

\* the scan that keeps the read lock
ReadKeepsLock(p) ==
    /\ lookups[p].pc = "reading"
    /\ lookups' = [lookups EXCEPT ![p] = ReadCache(lookups[p], cache)]
    /\ UNCHANGED <<cache, mu>>
    /\ UNCHANGED otherVars

\* the scan of the cache, then c.mu.RUnlock()
ReadUnlock(p) ==
    /\ lookups[p].pc = "reading"
    /\ lookups' = [lookups EXCEPT ![p] = ReadCache(lookups[p], cache)]
    /\ mu' = [mu EXCEPT !.readers = @ \ {p}]
    /\ UNCHANGED cache
    /\ UNCHANGED otherVars

\* fetchColumnComments returns: an error ends the call, rows lead to Lock()
Query(p) ==
    /\ lookups[p].pc = "query"
    /\ \E metaOk \in BOOLEAN :
          lookups' = [lookups EXCEPT ![p] =
              IF metaOk
              THEN [lookups[p] EXCEPT
                      !.queried = TRUE, !.pc = "locking",
                      !.fetched = fetchColumnComments(lookups[p].toFetch)]
              ELSE [lookups[p] EXCEPT
                      !.queried = TRUE, !.failed = TRUE, !.pc = "done"]]
    /\ UNCHANGED <<cache, mu>>
    /\ UNCHANGED otherVars

\* c.mu.Lock() returns
LockAcquire(p) ==
    /\ lookups[p].pc = "locking"
    /\ mu.readers = {}
    /\ mu.writer = 0
    /\ mu' = [mu EXCEPT !.writer = p]
    /\ lookups' = [lookups EXCEPT ![p].pc = "writing"]
    /\ UNCHANGED cache
    /\ UNCHANGED otherVars

\* the fetched comments are stored, then c.mu.Unlock()
WriteUnlock(p) ==
    /\ lookups[p].pc = "writing"
    /\ \E stored \in {StoreFetched(lookups[p].fetched, lookups[p].toFetch,
                                   DOMAIN lookups[p].result,
                                   lookups[p].result @@ cache)} :
          /\ cache' = [k \in DOMAIN stored.cache |->
                          IF k \in DOMAIN cache /\ k \notin Range(lookups[p].toFetch)
                          THEN cache[k] ELSE stored.cache[k]]
          /\ lookups' = [lookups EXCEPT ![p].result = stored.result,
                                        ![p].pc = "done"]
    /\ mu' = [mu EXCEPT !.writer = 0]
    /\ UNCHANGED otherVars

\* the caller takes the result; its next call starts from a fresh frame
LookupReturn(p) ==
    /\ lookups[p].pc = "done"
    /\ lookups' = [lookups EXCEPT ![p] = IdleLookup]
    /\ UNCHANGED <<cache, mu>>
    /\ UNCHANGED otherVars

\* what a caller inside lookupColumnComments does next
LookupStep(p) ==
    \/ RLock(p)
    \/ ReadUnlock(p)
    \/ Query(p)
    \/ LockAcquire(p)
    \/ WriteUnlock(p)
    \/ LookupReturn(p)

InitLookup ==
    /\ ExecutorIdle
    /\ InitServices

NextLookup == \E p \in Callers : LookupCall(p) \/ LookupStep(p)

SpecLookup == InitLookup /\ [][NextLookup]_vars

\* every goroutine that can run is run again, and a query returns (with rows
\* or with the error of its context)
SpecLookupFair == SpecLookup /\ \A p \in Callers : WF_vars(LookupStep(p))

----------------------------------------------------------------------------
(* The user-scoped handlers of the API layer.  A request carries what       *)
(* AuthMiddleware put into the context (user_id and role of the token) and  *)
(* the user_id query parameter; target is the user id the handler passes    *)
(* to the store, out what the store returns for it.                         *)

kwAdmin == <<"a","d","m","i","n">>

\* getUserRole, isAdmin
isAdmin(c) == EqualFold(c.role, kwAdmin)

\* the override whatever the caller's role
scopedUserIDAnyRole(c) ==
    IF TrimSpace(c.query) # <<>> THEN TrimSpace(c.query) ELSE c.userID

scopedUserID(c) ==
    IF isAdmin(c) /\ TrimSpace(c.query) # <<>>
    THEN TrimSpace(c.query)
    ELSE c.userID

\* reports.Store.ListByUser, reports.Store.Delete
ListByUser(reports, userID) == {r \in reports : r.user = userID}
DeleteReport(reports, userID, reportID) ==
    {r \in reports : ~(r.id = reportID /\ r.user = userID)}

\* chat.Store.ListSessions, GetMessages (no keyword), ExportSession
ChatListSessions(userID) == {m.session : m \in {r \in ChatRows : r.user = userID}}
GetMessages(userID, sessionID) ==
    {m \in ChatRows : m.user = userID /\ m.session = sessionID}
ExportSession(userID, sessionID) == GetMessages(userID, sessionID)

\* memory.Store.ListSessions, memory.Store.GetSession
MemoryListSessions(userID) ==
    {e.session : e \in {r \in MemoryRows : r.user = userID}}
GetSessionMemory(userID, sessionID) ==
    {e \in MemoryRows : e.user = userID
                        /\ e.session = (IF sessionID = "" THEN "default" ELSE sessionID)}

ScopedHandlers ==
    {"GetHistory", "DeleteHistory", "ListChatSessions", "GetChatMessages",
     "ExportChatSession", "ListSessions", "GetSessionMemory"}

\* the handler named by c.handler: [target, out, reports]
ServeScoped(c, reports, target) ==
    [target |-> target,
     out |-> CASE c.handler = "GetHistory" -> ListByUser(reports, target)
               [] c.handler = "DeleteHistory" -> {}
               [] c.handler = "ListChatSessions" -> ChatListSessions(target)
               [] c.handler = "GetChatMessages" -> GetMessages(target, c.param)
               [] c.handler = "ExportChatSession" -> ExportSession(target, c.param)
               [] c.handler = "ListSessions" -> MemoryListSessions(target)
               [] c.handler = "GetSessionMemory" -> GetSessionMemory(target, c.param),
     reports |-> IF c.handler = "DeleteHistory"
                 THEN DeleteReport(reports, target, c.param)
                 ELSE reports]

ScopedRoles ==
    {kwAdmin, <<"A","d","m","i","n">>, <<"u","s","e","r">>, <<>>,
     <<"a","d","m","i","n","s">>}
ScopedQueries == {<<>>, uBob, <<" ","u","1"," ">>, <<" ">>}

ScopedRequests ==
    [handler : ScopedHandlers \ {"DeleteHistory"}, userID : UserIDs,
     role : ScopedRoles, query : ScopedQueries, param : {"s1", "s2"}]
        \cup [handler : {"DeleteHistory"}, userID : UserIDs,
              role : ScopedRoles, query : ScopedQueries, param : {"r1", "r2"}]

InitScoped ==
    /\ ExecutorIdle
    /\ InitServices

\* one request is served; twin records what the same request would have got
\* from the same stores with another user_id query parameter.  Requests
\* share nothing but the stores: a behaviour follows one request.
HandleScoped ==
    /\ ~scope.served
    /\ \E c \in ScopedRequests, other \in ScopedQueries :
          \E r \in {ServeScoped(c, scope.reports, scopedUserID(c))},
             t \in {ServeScoped([c EXCEPT !.query = other], scope.reports,
                                scopedUserID([c EXCEPT !.query = other]))} :
              scope' = [reports |-> r.reports, served |-> TRUE, request |-> c,
                        before |-> scope.reports,
                        target |-> r.target, out |-> r.out,
                        twin |-> [query |-> other, target |-> t.target,
                                  out |-> t.out, reports |-> t.reports]]
    /\ UNCHANGED <<tpl, match, memory, progress, gen, pending, schema, lockVars>>
    /\ UNCHANGED execVars

NextScoped == HandleScoped

SpecScoped == InitScoped /\ [][NextScoped]_vars

----------------------------------------------------------------------------
(* Properties of the validator (checked under SpecValidate) *)

Validated == verdict # "pending"

\* a denylisted verb as a token of its own: not adjoined by a word character
HasStandaloneVerb(text) ==
    LET u == ToUpper(text)
    IN  \E n \in 1..Len(dangerous) : \E i \in 1..Len(u) : WordAt(u, i, dangerous[n])

\* C1: every SQL text that holds a denylisted verb as a standalone token, in
\* any letter case, with any whitespace around it, outside parentheses or
\* directly inside them, is rejected by ValidateSQL.
C1_DenylistedVerbRejected ==
    Validated /\ HasStandaloneVerb(sql) => verdict # NoError

\* the injection heuristics the validator is said to apply
IsInjectionLike(text) ==
    LET u == ToUpper(text)
    IN  \/ MatchQuoteComment(u)
        \/ MatchBoolCondition(u)
        \/ (MatchUnionSelect(u) /\ hasMultipleRoots(text))
        \/ Contains(ToLower(text), <<"x","p","_">>)
        \/ Contains(ToLower(text), <<"s","p","_">>)

\* C3: a statement that passes the read-query and the denylist checks but
\* matches an injection heuristic (a quote followed by a "--" comment, an
\* always-true OR/AND condition, a UNION ... SELECT with several top-level
\* SELECTs, an xp_ / sp_ name) is rejected by ValidateSQL.
C3_InjectionRejected ==
    LET t == TrimSpace(sql)
    IN  Validated /\ isSelectQuery(t) /\ ~hasDangerousKeywords(t) /\ IsInjectionLike(t)
            => verdict # NoError

\* semicolons of a statement that stand outside string literals and outside
\* comments; a quote preceded by a backslash does not toggle the quote state
RECURSIVE LexSemicolons(_, _, _, _)
LexSemicolons(s, i, mode, q) ==
    IF i > Len(s) THEN 0
    ELSE IF mode = "code"
    THEN IF IsQuote(s[i]) /\ (i = 1 \/ s[i - 1] # "\\")
         THEN LexSemicolons(s, i + 1, "string", s[i])
         ELSE IF MatchAt(s, i, <<"-","-">>) THEN LexSemicolons(s, i + 2, "line", q)
         ELSE IF MatchAt(s, i, <<"/","*">>) THEN LexSemicolons(s, i + 2, "block", q)
         ELSE (IF s[i] = ";" THEN 1 ELSE 0) + LexSemicolons(s, i + 1, "code", q)
    ELSE IF mode = "string"
    THEN IF s[i] = q /\ s[i - 1] # "\\"
         THEN LexSemicolons(s, i + 1, "code", q)
         ELSE LexSemicolons(s, i + 1, "string", q)
    ELSE IF mode = "line"
    THEN LexSemicolons(s, i + 1, IF s[i] = "\n" THEN "code" ELSE "line", q)
    ELSE IF MatchAt(s, i, <<"*","/">>) THEN LexSemicolons(s, i + 2, "code", q)
         ELSE LexSemicolons(s, i + 1, "block", q)

\* semicolons outside string literals, the quote state tracked character by
\* character over the whole statement
QuoteStateSemicolons(s) == CountSemicolons(s, 1, FALSE, "")

\* C4: a statement with more than one semicolon outside string literals is
\* rejected by ValidateSQL (semicolons inside comments are not held against
\* it here), and a semicolon inside a single- or double-quoted literal never
\* counts: a statement is refused as stacked only if more than one semicolon
\* stands outside its literals.
C4_StackedRejected ==
    LET t == TrimSpace(sql)
    IN  Validated =>
          /\ (LexSemicolons(t, 1, "code", "") > 1 => verdict # NoError)
          /\ (verdict = ErrStacked => QuoteStateSemicolons(t) > 1)

\* C5: ValidateSQL returns ok only for a text that, trimmed, is not empty and
\* starts with SELECT, with WITH followed later by SELECT, or with "(".
C5_OnlyReadQueriesPass ==
    LET t == ToUpper(TrimSpace(sql))
    IN  Validated /\ verdict = NoError =>
          /\ t # <<>>
          /\ \/ HasPrefix(t, kwSELECT)
             \/ HasPrefix(t, <<"(">>)
             \/ (HasPrefix(t, fWITH) /\ \E i \in 5..Len(t) : MatchAt(t, i, kwSELECT))

\* a CTE that starts after leading whitespace... is accepted
C5_Witness ==
    /\ Validated
    /\ verdict = NoError
    /\ HasPrefix(ToUpper(TrimSpace(sql)), kwWITHsp)

----------------------------------------------------------------------------
(* Properties of the executor and of the export (checked under Spec) *)

Executed == op = "execute"
Accepted == ValidateSQL(req.SQL) = NoError
EngineCompleted == engine \in {"ok", "meta_err"}

\* the page and page size a request asks for, as the executor is to read them
EffectivePage == IF req.Page <= 0 THEN 1 ELSE req.Page
EffectivePageSize ==
    IF req.PageSize <= 0 THEN exec.defaultPageSize
    ELSE IF req.PageSize > exec.maxPageSize THEN exec.maxPageSize
    ELSE req.PageSize

\* C2: for a request whose SQL the validator rejects, ExecuteSQL returns
\* success=false with the validator's reason as error, returns no hard
\* error, and issues no statement to the database.
C2_RejectedBeforeDatabase ==
    Executed /\ ~Accepted =>
        /\ resp.Success = FALSE
        /\ resp.Error = ValidateSQL(req.SQL)
        /\ hardErr = NoError
        /\ dbCalls = <<>>

C2_Witness ==
    /\ Executed
    /\ req.SQL = tStacked
    /\ engine = "ok"
    /\ resp.Error = ErrStacked
    /\ dbCalls = <<>>

\* C6 as stated: page 1 with page size N returns min(N, total_rows) rows,
\* row_count equal to that, has_more = (total_rows > N), N the requested size.
C6_FirstPageOfRequestedSize ==
    Executed /\ Accepted /\ EngineCompleted /\ req.Page = 1 /\ req.PageSize >= 1 =>
        /\ resp.Success
        /\ Len(resp.Rows) = Min(req.PageSize, dbTotal)
        /\ resp.RowCount = Min(req.PageSize, dbTotal)
        /\ resp.HasMore = (dbTotal > req.PageSize)

\* C6 amended: page 1 returns min(N, total_rows) rows, row_count equal to
\* that, and has_more = (total_rows > N), where N is the effective page size:
\* the requested size capped at the configured maximum, or the configured
\* default when the requested size is <= 0.
C6_FirstPageOfEffectiveSize ==
    Executed /\ Accepted /\ EngineCompleted /\ req.Page = 1 =>
        /\ resp.Success
        /\ Len(resp.Rows) = Min(EffectivePageSize, dbTotal)
        /\ resp.RowCount = Min(EffectivePageSize, dbTotal)
        /\ resp.HasMore = (dbTotal > EffectivePageSize)

\* a first page cut at the configured maximum, with more rows behind it
C6_Witness ==
    /\ Executed /\ Accepted /\ engine = "ok"
    /\ req.Page = 1
    /\ req.PageSize = 250
    /\ resp.RowCount = 2
    /\ dbTotal = 3
    /\ resp.HasMore

\* the returned row is row n of the inner query, cells of masked columns aside
IsRowNumber(row, n) ==
    /\ Len(row) = Len(dbCols)
    /\ \A c \in 1..Len(dbCols) :
          \/ row[c] = Cell(n, c)
          \/ (row[c] = MaskToken /\ Cell(n, c) # Nil)

\* C7: page p of a statement returns exactly the rows numbered
\* (p-1)*pageSize+1 .. p*pageSize that exist, in order, so that the pages p
\* and p+1 share no row and the look-ahead row is never returned on page p.
C7_PageHoldsItsRows ==
    Executed /\ Accepted /\ EngineCompleted =>
        LET first == (EffectivePage - 1) * EffectivePageSize + 1
            last == Min(EffectivePage * EffectivePageSize, dbTotal)
        IN  /\ Len(resp.Rows) = Max(0, last - first + 1)
            /\ Len(resp.Rows) <= EffectivePageSize
            /\ \A k \in 1..Len(resp.Rows) : IsRowNumber(resp.Rows[k], first + k - 1)

\* the second page holds the row that was the look-ahead row of the first
C7_Witness ==
    /\ Executed /\ Accepted /\ engine = "ok"
    /\ req.Page = 2
    /\ req.PageSize = 2
    /\ dbTotal = 3
    /\ Len(resp.Rows) = 1
    /\ IsRowNumber(resp.Rows[1], 3)

\* C8: the effective page is 1 for a requested page <= 0 and the requested
\* page otherwise; the effective page size is the configured default for a
\* requested size <= 0 and lies in 1..configured maximum; the offset passed
\* to the database is (page-1)*pageSize; the result reports both.
C8_PageAndOffset ==
    Executed /\ Accepted =>
        /\ resp.Page = (IF req.Page <= 0 THEN 1 ELSE req.Page)
        /\ (req.PageSize <= 0 => resp.PageSize = exec.defaultPageSize)
        /\ resp.PageSize >= 1
        /\ resp.PageSize <= exec.maxPageSize
        /\ dbCalls # <<>>
        /\ dbCalls[1].kind = "range"
        /\ dbCalls[1].offset = (resp.Page - 1) * resp.PageSize

C8_Witness ==
    /\ Executed /\ Accepted
    /\ req.Page = 3
    /\ req.PageSize = 250
    /\ resp.PageSize = 2
    /\ dbCalls[1].offset = 4

\* the column name equals a sensitive name, or is a decoration comment(NAME)
\* whose NAME equals one, letter case aside
IsSensitiveName(name, sens) ==
    \/ ToUpper(TrimSpace(name)) \in sens
    \/ \E i \in 1..(Len(name) - 2) :
          /\ name[i] = "("
          /\ name[Len(name)] = ")"
          /\ ToUpper(TrimSpace(SubSeq(name, i + 1, Len(name) - 1))) \in sens

\* C9: in a successful result every non-null cell of a column with a
\* sensitive name is "***" and the column is listed in masked_columns; every
\* cell of any other column is unchanged and no other column is listed.
C9_MaskingOfSensitiveColumns ==
    Executed /\ resp.Success =>
        LET first == (EffectivePage - 1) * EffectivePageSize + 1
            listed == {resp.MaskedColumns[i] : i \in 1..Len(resp.MaskedColumns)}
        IN  \A c \in 1..Len(resp.Columns) :
              IF IsSensitiveName(resp.Columns[c], exec.sensitiveCols)
              THEN /\ resp.Columns[c] \in listed
                   /\ \A k \in 1..Len(resp.Rows) :
                         resp.Rows[k][c] = (IF Cell(first + k - 1, c) = Nil
                                            THEN Nil ELSE MaskToken)
              ELSE /\ resp.Columns[c] \notin listed
                   /\ \A k \in 1..Len(resp.Rows) :
                         resp.Rows[k][c] = Cell(first + k - 1, c)

\* a column decorated with its comment is masked, a null cell of it is kept
C9_Witness ==
    /\ Executed /\ resp.Success
    /\ Len(resp.Rows) >= 2
    /\ \E c \in 1..Len(resp.Columns) :
          /\ resp.Columns[c] = <<"t","e","l","(","m",")","(">> \o cPHONE \o <<")">>
          /\ resp.Columns[c] \in {resp.MaskedColumns[i] : i \in 1..Len(resp.MaskedColumns)}
          /\ resp.Rows[1][c] = Nil
          /\ resp.Rows[2][c] = MaskToken

\* C10: no export written by ExportSQLResult holds the unmasked value of a
\* non-null cell of a configured sensitive column.
C10_ExportIsMasked ==
    op = "export" /\ doc.status = 200 =>
        \A c \in 1..Len(dbCols) : \A k \in 1..Len(doc.doc.body) :
            ToUpper(dbCols[c]) \in exec.sensitiveCols /\ Cell(k, c) # Nil
                => doc.doc.body[k][c] # escapeCell(Cell(k, c))

\* the engine reported an error while the statement ran: when the wrapped
\* query was started, while a row was scanned (there is a row to scan), or
\* while the rows were iterated
EngineErrorOccurred ==
    /\ dbCalls # <<>>
    /\ \/ engine \in {"query_err", "rows_err"}
       \/ /\ engine = "scan_err"
          /\ WrappedRows(dbTotal, dbCalls[1].maxRow, dbCalls[1].offset) # <<>>

\* C11: whenever the engine reports an error for a validated statement,
\* ExecuteSQL returns success=false with a non-empty error and no hard error;
\* a result with success=true is returned only when no engine error occurred.
C11_EngineErrorCaptured ==
    Executed /\ Accepted =>
        /\ EngineErrorOccurred =>
              resp.Success = FALSE /\ resp.Error # "" /\ hardErr = NoError
        /\ resp.Success => ~EngineErrorOccurred

\* C12: an execute request with a timeout t of 1..300 seconds runs its
\* statement under a deadline of t seconds; other values fall back to the
\* executor's default timeout.
C12_RequestTimeoutHonoured ==
    Executed /\ Accepted /\ dbCalls # <<>> =>
        dbCalls[1].timeout = (IF req.Timeout >= 1 /\ req.Timeout <= 300
                              THEN req.Timeout ELSE exec.timeout)

----------------------------------------------------------------------------
(* Properties of the generation orchestrator, checked under SpecGenerate *)

GenHandled == gen.handled > 0

\* Match found a template for the request
TemplateHit == GenHandled /\ gen.matchAsked /\ gen.found # NoTemplate

\* the memory entry appendMemory builds for a delivered result
MemoryEntryOf(query, response) ==
    [Query |-> query, SQL |-> response.SQL, Reasoning |-> response.Reasoning,
     Source |-> response.Source]

\* C13: on a template hit, on both transports, the LLM capability is not
\* called (no GenerateSQL, GenerateSQLStream or GenerateGuidance), the stages
\* emitted are received and template_matched only, the delivered result has
\* source=template, and that result is handed once to the memory store, which
\* holds it afterwards whenever its insert succeeds.
C13_TemplateHitSkipsLLM ==
    TemplateHit =>
        /\ gen.calls = <<>>
        /\ gen.stages = <<"received", "template_matched">>
        /\ gen.status \in {"200", "complete"}
        /\ gen.result.Source = "template"
        /\ gen.result.TemplateID = gen.found.ID
        /\ gen.appended = <<MemoryEntryOf(gen.request.Query, gen.result)>>
        /\ gen.appendOk =>
              EntriesOf(memory, gen.session)
                  = Append(gen.stored, MemoryEntryOf(gen.request.Query, gen.result))

\* a template hit on the WebSocket after an LLM result of the same session
C13_Witness ==
    /\ TemplateHit /\ gen.transport = "ws" /\ gen.handled = 2
    /\ Len(gen.stored) = 1 /\ gen.stored[1].Source = "llm"
    /\ Len(EntriesOf(memory, gen.session)) = 2

\* the query is, character for character, one keyword of a seeded template
EqualsSeededKeyword(query, t) == \E i \in 1..Len(t.Keywords) : query = t.Keywords[i]

\* C14: a request whose query text exactly equals one keyword of a seeded
\* template is answered with source=template, used_memory=false and the
\* template's stored SQL text verbatim.
C14_KeywordQueryUsesTemplate ==
    \A i \in 1..Len(defaultTemplates) :
        GenHandled /\ EqualsSeededKeyword(gen.request.Query, defaultTemplates[i]) =>
            /\ gen.result.Source = "template"
            /\ gen.result.UsedMemory = FALSE
            /\ gen.result.SQL = defaultTemplates[i].SQL

\* a generation result was delivered to the caller
ResultDelivered == GenHandled /\ gen.result # NoResponse

\* C16: every delivered generation result has used_memory = TRUE exactly when
\* the memory store returned at least one entry of the request's session to
\* the handler (none when the handler did not ask), on every exit path.
C16_UsedMemoryIffEntries ==
    ResultDelivered => (gen.result.UsedMemory <=> Len(gen.memEntries) > 0)

\* the LLM capability was called and returned without error
LLMAnswered ==
    GenHandled /\ gen.found = NoTemplate /\ gen.calls # <<>> /\ gen.llm.err = ""

\* the LLM capability was called and failed
LLMFailed ==
    GenHandled /\ gen.found = NoTemplate /\ gen.calls # <<>> /\ gen.llm.err # ""

\* the text is empty, begins with an error marker, or says that something
\* was not found or that there is no table
UnusableSQL(text) ==
    \/ TrimSpace(text) = <<>>
    \/ HasPrefix(ToUpper(TrimSpace(text)), kwERROR)
    \/ Contains(ToUpper(text), kwNOTFOUND)
    \/ Contains(ToUpper(text), kwNOTABLE)

GuidanceCalls == {i \in 1..Len(gen.calls) : gen.calls[i].op = "GenerateGuidance"}

\* C17: when the LLM returns without error and its SQL is unusable, the
\* guidance call is made, the delivered result has source=assistant_hint and
\* empty sql, and the unusable SQL is not delivered with source=llm.
C17_UnusableSQLBecomesHint ==
    LLMAnswered /\ UnusableSQL(gen.llm.SQL) =>
        /\ GuidanceCalls # {}
        /\ ResultDelivered =>
              /\ gen.result.Source = "assistant_hint"
              /\ gen.result.SQL = <<>>

\* C18: when the LLM fails hard, the guidance call is made under a deadline
\* derived from context.Background(), not from the request's context; the
\* request ends in an error, and its progress entry in failed, only when the
\* guidance call failed as well.
C18_GuidanceBeforeError ==
    LLMFailed =>
        /\ \E i \in GuidanceCalls :
              /\ gen.calls[i].parent = "background"
              /\ gen.calls[i].timeout = GuidanceTimeoutSeconds
        /\ gen.status \in {"500", "error"} => gen.guide.err # ""
        /\ /\ gen.requestID \in DOMAIN progress
           /\ progress[gen.requestID].Stage = "failed"
           => gen.guide.err # ""

\* C19: a REST request that created its progress entry and returned leaves
\* the entry with done=true and stage completed or failed.
C19_ProgressEndsTerminal ==
    GenHandled /\ gen.transport = "rest" /\ gen.created /\ gen.status # "" =>
        /\ gen.requestID \in DOMAIN progress
        /\ progress[gen.requestID].Done = TRUE
        /\ progress[gen.requestID].Stage \in {"completed", "failed"}

\* the request entered the pipeline and reached a terminal transition
PipelineEnded == GenHandled /\ gen.stages # <<>> /\ gen.status # ""

\* the request ended with a result: template hit, LLM result or guidance hint
EndedCompleted == gen.status \in {"200", "complete"}

\* C22: a generation request that reaches a terminal transition emits exactly
\* one metric event, generate_rest or generate_ws by transport, carrying the
\* session id, whose success flag is TRUE exactly when the request ended
\* completed and FALSE exactly when it ended failed.
C22_OneMetricPerRequest ==
    PipelineEnded =>
        /\ Len(gen.metrics) = 1
        /\ gen.metrics[1].event =
              (IF gen.transport = "rest" THEN "generate_rest" ELSE "generate_ws")
        /\ gen.metrics[1].session = gen.session
        /\ gen.metrics[1].success = EndedCompleted

\* a WebSocket exchange whose request was read and accepted
ExchangeAccepted == GenHandled /\ gen.transport = "ws" /\ gen.stages # <<>>

TerminalFrames ==
    {i \in 1..Len(gen.frames) : gen.frames[i].type \in {"complete", "error"}}

ChunkFrames == {i \in 1..Len(gen.frames) : gen.frames[i].type = "chunk"}

\* the bodies of the chunk frames in the order they were written
RECURSIVE ChunksWritten(_)
ChunksWritten(frames) ==
    IF frames = <<>> THEN <<>>
    ELSE IF Head(frames).type = "chunk"
    THEN <<Head(frames).body>> \o ChunksWritten(Tail(frames))
    ELSE ChunksWritten(Tail(frames))

\* C23: on a WebSocket exchange whose request was read and accepted, exactly
\* one terminal frame (complete or error) is written and it is the last
\* frame, so every progress and chunk frame comes before it; the chunks are
\* written in the order the LLM produced them; one request is read.
C23_OneTerminalFrame ==
    ExchangeAccepted =>
        /\ Cardinality(TerminalFrames) = 1
        /\ TerminalFrames = {Len(gen.frames)}
        /\ gen.frames[Len(gen.frames)].type = gen.status
        /\ ChunksWritten(gen.frames) =
              (IF gen.calls # <<>> THEN gen.llm.chunks ELSE <<>>)
        /\ gen.reads = 1

\* an LLM failure after one chunk: progress frames, the chunk, then error
C23_Witness ==
    /\ ExchangeAccepted /\ gen.llm.err # "" /\ gen.status = "error"
    /\ Cardinality(ChunkFrames) = 1
    /\ Len(gen.frames) >= 5

\* the guidance calls a handler made
GuidanceOf(h) == {i \in 1..Len(h.calls) : h.calls[i].op = "GenerateGuidance"}

\* what the caller and the stores see of two runs is the same
SameOutcome(r, w) ==
    /\ r.stages = w.stages
    /\ (GuidanceOf(r) = {}) = (GuidanceOf(w) = {})
    /\ r.items = w.items
    /\ r.appended = w.appended
    /\ r.mem = w.mem
    /\ r.chat = w.chat
    /\ r.result.Source = w.result.Source
    /\ r.result.SQL = w.result.SQL
    /\ r.result.UsedMemory = w.result.UsedMemory

\* C24: for the same request, template listing, memory contents and LLM
\* responses, the REST handler and the WebSocket handler pass through the
\* same stages, take the same guidance decision, leave the same progress
\* entries, memory entries and chat messages, and end with the same source,
\* sql and used_memory (compared on the stores any handled request left).
C24_TransportsAgree ==
    \A case \in GenCases(tpl) :
        GenHandled /\ case.env.payloadOk /\ TrimSpace(case.request.Query) # <<>> =>
            SameOutcome(
                GenerateSQL(case.request, case.env, case.listed, memory, progress),
                SQLWebSocket(case.request, case.env, case.listed, memory, progress))

\* the query of the request is empty once its white space is trimmed
BlankQuery == GenHandled /\ TrimSpace(gen.request.Query) = <<>>

\* C25: a generation request whose query is empty after trimming is rejected
\* on both transports before any pipeline stage runs: no chat message is
\* saved, no progress entry is created, no template is matched and no LLM
\* call is made.
C25_BlankQueryRejected ==
    BlankQuery =>
        /\ gen.status \in {"400", "error"}
        /\ gen.stages = <<>>
        /\ gen.chat = <<>>
        /\ gen.created = FALSE
        /\ gen.matchAsked = FALSE
        /\ gen.calls = <<>>

----------------------------------------------------------------------------
(* Properties of Service.Match, checked under SpecMatch *)

\* the number of non-empty keywords of a template found in the lower-cased query
KeywordHits(query, t) ==
    Cardinality({i \in 1..Len(t.Keywords) :
                    /\ TrimSpace(t.Keywords[i]) # <<>>
                    /\ Contains(ToLower(query), ToLower(TrimSpace(t.Keywords[i])))})

\* the highest score of a listing, 0 for an empty one
HighestScore(query, list) ==
    CHOOSE m \in {KeywordHits(query, list[i]) : i \in 1..Len(list)} \cup {0} :
        \A i \in 1..Len(list) : KeywordHits(query, list[i]) <= m

\* the first template of the listing that has the given score
FirstWithScore(query, list, score) ==
    list[CHOOSE i \in 1..Len(list) :
            /\ KeywordHits(query, list[i]) = score
            /\ \A j \in 1..(i - 1) : KeywordHits(query, list[j]) # score]

\* C15: Match returns the first template in listing order among those with
\* the highest keyword score when that score is at least 2 and none when every
\* score is below 2, and two calls with the same query on the same template
\* set, both of which could list the templates, return the same template.
C15_MatchSelection ==
    /\ match.called /\ match.ok =>
          match.result =
              (IF HighestScore(match.query, match.list) < 2 THEN NoTemplate
               ELSE FirstWithScore(match.query, match.list,
                                   HighestScore(match.query, match.list)))
    /\ match.called /\ match.ok /\ match.prev.called /\ match.prev.ok
          /\ match.query = match.prev.query
          => match.result = match.prev.result

----------------------------------------------------------------------------
(* Properties of progress.Store, checked under SpecProgress *)

\* C20: once an entry has done=true, no Init, Update, Complete or Fail on
\* its id changes its stage, message, success or error.
C20_DoneEntryIsFrozen ==
    [][\A id \in DOMAIN progress :
          progress[id].Done =>
              /\ id \in DOMAIN progress'
              /\ progress'[id].Stage = progress[id].Stage
              /\ progress'[id].Message = progress[id].Message
              /\ progress'[id].Success = progress[id].Success
              /\ progress'[id].Error = progress[id].Error]_vars

\* C21: Init for a request id that already has an entry leaves that entry
\* (stage, message, done, success, error) as it was, also when two callers
\* of updateProgress both found no entry and initialise the same id.
C21_InitIsIdempotent ==
    [][ProgressInit => \A id \in DOMAIN progress : progress'[id] = progress[id]]_vars

----------------------------------------------------------------------------
(* Properties of the schema context builder (checked under SpecSchema) *)

SchemaBuilt == schema.built /\ schema.err = ""

\* positions of the text holding a piece of the given kind
Pieces(kind) == {k \in DOMAIN schema.text : schema.text[k].piece = kind}

\* tables whose full detail is in the text, tables whose fetch failed
DetailedTables == {schema.text[k].table : k \in Pieces("table")}
FailedTables ==
    {schema.fetches[k].table : k \in DOMAIN schema.fetches} \ DetailedTables

\* fetches made before the k-th one that succeeded
SucceededBefore(k) ==
    {j \in 1..(k - 1) : schema.fetches[j].table \in DetailedTables}

AttemptCapReached == SchemaBuilt /\ schema.stop = "attempts"
FallbackListed == SchemaBuilt /\ Cardinality(FailedTables) > maxTables /\ DetailedTables = {}
CapsCoincide ==
    /\ AttemptCapReached
    /\ Cardinality(Pieces("table")) = maxTables
    /\ Len(schema.fetches) < schema.input.tables

\* seconds the k-th fetch took
FetchTook(k) ==
    (IF k < Len(schema.fetches) THEN schema.fetches[k + 1].at ELSE schema.elapsed)
        - schema.fetches[k].at

DeadlineElapsed == schema.built /\ schema.elapsed >= schema.input.deadline

\* the loop of the build: every fetch starts before the deadline and takes
\* at most the per-table timeout, and the build ends by the deadline
LoopHonoursDeadline ==
    /\ \A k \in DOMAIN schema.fetches :
          /\ schema.fetches[k].at < schema.input.deadline
          /\ FetchTook(k) <= TableTimeoutSeconds
    /\ schema.elapsed <= schema.input.deadline

\* C27 as stated: the build stops at the caller's deadline, starts no fetch
\* after it and then returns the text built so far without error; a fetch
\* that never answers delays the build by at most the per-table timeout.
C27_DeadlineReturnsText ==
    schema.built =>
        /\ LoopHonoursDeadline
        /\ DeadlineElapsed => schema.err = ""

\* C27 amended: the same, except that a deadline that elapses while the list
\* of tables is fetched ends the build with that error and no text.
C27_DeadlineStopsLoop ==
    schema.built =>
        /\ LoopHonoursDeadline
        /\ DeadlineElapsed =>
              IF schema.stop = "list"
              THEN schema.err # "" /\ schema.text = <<>> /\ schema.fetches = <<>>
              ELSE schema.err = "" /\ schema.text # <<>>

\* the deadline elapses in the loop, during a fetch that never answers
C27_Witness ==
    /\ DeadlineElapsed
    /\ schema.stop = "deadline"
    /\ schema.fetches # <<>>
    /\ Len(schema.fetches) < schema.input.tables
    /\ FetchTook(1) = TableTimeoutSeconds

----------------------------------------------------------------------------
(* Properties of concurrent comment lookups (SpecLookup, SpecLookupFair) *)

\* a call that has returned without error
Completed(p) == lookups[p].pc = "done" /\ ~lookups[p].failed

\* what the catalog says about a key: its comment, or the empty string
CatalogValue(key) ==
    IF key \in CatalogKeys THEN TrimSpace(CatalogComment(key)) ELSE <<>>

CachedAsCatalog(key) == key \in DOMAIN cache /\ cache[key] = CatalogValue(key)

\* C28 as stated: after a lookup completes without error every upper-cased
\* column name it was asked about is in the cache, with its comment or with
\* the empty string.
C28_AskedNamesCached ==
    \A p \in Callers :
        Completed(p) =>
            \A i \in DOMAIN lookups[p].columns :
                CachedAsCatalog(ToUpper(lookups[p].columns[i]))

\* the scan of a call whose keys are all cached ends the call with no query
CachedScanEndsCall(p) ==
    /\ lookups[p].pc = "reading"
    /\ lookups'[p].pc # "reading"
    /\ \A k \in Range(lookups[p].unique) : k \in DOMAIN cache
    => lookups'[p].pc = "done" /\ ~lookups'[p].queried /\ cache' = cache

\* C28 amended: after a lookup completes without error the key of every
\* non-blank column name it was asked about, the name trimmed and
\* upper-cased, is in the cache with its comment or the empty string; and a
\* lookup whose keys are all cached when it scans the cache issues no query.
C28_AskedKeysCached ==
    /\ [](\A p \in Callers :
            Completed(p) =>
                \A i \in DOMAIN lookups[p].columns :
                    TrimSpace(lookups[p].columns[i]) # <<>> =>
                        CachedAsCatalog(ToUpper(TrimSpace(lookups[p].columns[i]))))
    /\ [][\A p \in Callers : CachedScanEndsCall(p)]_vars

\* a call that queried the catalog has returned; a column the catalog lacks
\* is cached as empty, and the other caller ended without a query
C28_Witness ==
    \E p \in Callers, q \in Callers :
        /\ Completed(p) /\ lookups[p].queried
        /\ \E k \in Range(lookups[p].unique) :
              k \notin CatalogKeys /\ k \in DOMAIN cache
        /\ Completed(q) /\ ~lookups[q].queried /\ lookups[q].unique # <<>>

WaitsForLock(p) == lookups[p].pc \in {"rlock", "locking"}

\* C29: a lookup holds no lock during the metadata query and has released
\* the read lock when it asks for the write lock; every lookup that holds
\* the lock releases it and every lookup that waits for it gets it.
C29_LookupsNeverDeadlock ==
    /\ [](\A p \in Callers :
            /\ lookups[p].pc = "query" => ~Holds(p)
            /\ lookups[p].pc = "locking" => ~Holds(p))
    /\ \A p \in Callers :
          /\ Holds(p) ~> ~Holds(p)
          /\ WaitsForLock(p) ~> Holds(p)

\* one caller is inside Lock() while the other still holds the read lock
C29_Witness ==
    \E p \in Callers, q \in Callers :
        /\ lookups[p].pc = "locking"
        /\ lookups[q].pc = "reading" /\ q \in mu.readers

----------------------------------------------------------------------------
(* Properties of the user-scoped handlers (checked under SpecScoped) *)

\* the caller's role is not admin, in any letter case
NotAdmin == scope.served /\ ToLower(scope.request.role) # kwAdmin

\* C30: for a caller whose role is not admin, in any letter case, each of
\* the seven user-scoped handlers passes the authenticated user id to its
\* store whatever the user_id query parameter is; the request and its twin
\* with another parameter read the same rows and leave the same reports.
C30_NonAdminScopedToSelf ==
    NotAdmin =>
        /\ scope.target = scope.request.userID
        /\ scope.twin.target = scope.request.userID
        /\ scope.out = scope.twin.out
        /\ scope.reports = scope.twin.reports
        /\ \A r \in scope.before \ scope.reports : r.user = scope.request.userID

\* a non-admin asks for another user's data: the parameters differ and name
\* the other user, who owns rows the request would otherwise have reached
C30_Witness ==
    /\ NotAdmin
    /\ scope.request.role # <<>>
    /\ scope.request.userID = uAlice
    /\ scope.request.query = uBob
    /\ scope.twin.query = <<>>
    /\ scope.request.handler = "GetChatMessages"
    /\ scope.out # {}
    /\ GetMessages(uBob, scope.request.param) # scope.out

====
